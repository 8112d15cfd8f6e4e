--------------------------- MODULE EvaluationInputs ---------------------------
(***************************************************************************)
(* A coverage evaluation that is run while handlers of SafeguardRegister   *)
(* change the safeguard it depends on: what Run of                         *)
(* backend/internal/service/coverage_evaluation_service.go reads of the    *)
(* safeguard, and whether the algorithm counts it.                         *)
(*                                                                         *)
(* lifecycle_state does not change when a verification runs out, so the    *)
(* algorithm decides by date, at a reference time that Run reads after the *)
(* rows.  The snapshot holds both times in whole seconds.  The module also *)
(* keeps which requests were answered before which, and so can say what    *)
(* clients may rely on.                                                    *)
(***************************************************************************)
EXTENDS SafeguardRegister, Integers, FiniteSets

CONSTANTS
  Second,     \* ticks of the clock in a second
  MaxActive   \* bound: requests and run together

ASSUME ActiveAssumption == MaxActive \in Nat

\* Intervals are whole days.
ASSUME SecondAssumption ==
  Second \in Nat \ {0} /\ \A i \in Intervals : i % Second = 0

VARIABLES
  run,         \* the next statement of the run: "idle", "list", "reference" or "done"
  listed,      \* the row the run has read, None if there was none
  counted,     \* whether the evaluation counts the safeguard
  wasInForce,  \* whether the safeguard was in force at some moment of the run (history)
  precede,     \* precede[r]: the requests answered "ok" before r arrived (history)
  precedeRun   \* those answered "ok" before the run arrived (history)

runVars == <<run, listed, counted, wasInForce, precedeRun>>
inputVars == <<vars, runVars, precede>>

InputsTypeOK ==
  /\ run \in {"idle", "list", "reference", "done"}
  /\ listed \in Rows \cup {None}
  /\ counted \in BOOLEAN /\ wasInForce \in BOOLEAN
  /\ precede \in [Requests -> SUBSET Requests]
  /\ precedeRun \subseteq Requests

InputsInit ==
  /\ Init
  /\ run = "idle"
  /\ listed = None
  /\ counted = FALSE
  /\ wasInForce = FALSE
  /\ precede = [r \in Requests |-> {}]
  /\ precedeRun = {}

-----------------------------------------------------------------------------
Answered == {q \in Requests : answer[q] = "ok"}

Active == {r \in Requests : pc[r] # "idle"} \cup IF run = "idle" THEN {} ELSE {"run"}

\* Active, and verified within the interval, or overdue by less than a second.
InForceNow(row) ==
  row.state = "active" /\ row.verifiedAt # None /\ now < row.verifiedAt + row.interval + Second

InForce == safeguard # None /\ InForceNow(safeguard)

\* The history of the run after a step of anybody.
NoteForce ==
  wasInForce' = (wasInForce \/ (run' \in {"list", "reference"} /\ InForce'))

(* The handlers of the safeguard.                                          *)

ReceiveAndNote(r) ==
  /\ Cardinality(Active) < MaxActive
  /\ Receive(r)
  /\ precede' = [precede EXCEPT ![r] = Answered]
  /\ UNCHANGED runVars

Serve(r) ==
  /\ \/ GetScenario(r) \/ Insert(r) \/ PreviewRestore(r) \/ Read(r) \/ Edit(r)
     \/ Synchronize(r) \/ SetLifecycle(r) \/ Reload(r) \/ RecordAudit(r) \/ Get(r)
     \/ StatementFails(r)
  /\ UNCHANGED <<run, listed, counted, precedeRun, precede>>
  /\ NoteForce

(* The run.                                                                *)

StartRun ==
  /\ run = "idle"
  /\ Cardinality(Active) < MaxActive
  /\ run' = "list"
  /\ precedeRun' = Answered
  /\ UNCHANGED <<vars, listed, counted, precede>>
  /\ NoteForce

ListSafeguards ==
  /\ run = "list"
  /\ listed' = safeguard
  /\ run' = "reference"
  /\ UNCHANGED <<vars, counted, precedeRun, precede>>
  /\ NoteForce

\* Mutant: the lifecycle column is trusted, whatever the date.
EligibleWhileActive(row, t) == row.state = "active"

\* Time t in whole seconds.
Truncated(t) == t - (t % Second)

\* ineligibleReason of a row of the snapshot, for a reference time.
Eligible(row, t) ==
  /\ row.state = "active"
  /\ row.verifiedAt # None
  /\ t <= Truncated(row.verifiedAt) + row.interval

Counts(row) == row # None /\ Eligible(row, Truncated(now))

\* NewSnapshot, with a reference time read now.
FreezeSnapshot ==
  /\ run = "reference"
  /\ counted' = Counts(listed)
  /\ run' = "done"
  /\ UNCHANGED <<vars, listed, wasInForce, precedeRun, precede>>

-----------------------------------------------------------------------------
TickAndNote ==
  /\ Tick
  /\ UNCHANGED <<run, listed, counted, precedeRun, precede>>
  /\ NoteForce

\* A crash ends the run, too.
CrashAll ==
  /\ Crash
  /\ run' = IF run = "idle" THEN "idle" ELSE "done"
  /\ UNCHANGED <<listed, counted, wasInForce, precedeRun, precede>>

\* No request is under way: the server waits.
Resting ==
  /\ \A r \in Requests : pc[r] \in {"idle", "done"}
  /\ run \in {"idle", "done"}
  /\ UNCHANGED inputVars

InputsNext ==
  \/ \E r \in Requests : ReceiveAndNote(r) \/ Serve(r)
  \/ StartRun \/ ListSafeguards \/ FreezeSnapshot
  \/ TickAndNote \/ CrashAll \/ Resting

InputsSpec == InputsInit /\ [][InputsNext]_inputVars

-----------------------------------------------------------------------------
(* Safety.                                                                 *)

\* An evaluation counts a safeguard only if at some moment between the arrival of the run
\* and its snapshot it was active and its verification held, or was overdue by less than
\* a second, although the row may say "active" long after its verification has run out,
\* and Verify and Update may leave it so, and although the snapshot cuts both times to
\* seconds (Run, NewSnapshot, Verify, Update).
CountedWasInForce == counted => wasInForce

\* q arrived and was not refused, so it may have changed the safeguard.
MayHaveWritten(q) ==
  call[q] # None /\ answer[q] \in {"pending", "ok", "internal", "lost"}

\* A verification or a restoration that was not answered before r was sent.
BroughtBack(r) ==
  \E q \in Requests :
    MayHaveWritten(q) /\ call[q].kind \in {"verify", "restore"} /\ q \notin precede[r]

\* Once an invalidation was answered no later run counts the safeguard, unless it was
\* verified or restored at the same time or since; what updates under way do to the row
\* does not matter (Invalidate, Update, Run).
InvalidationIsSeen ==
  counted =>
    \A r \in precedeRun : call[r].kind = "invalidate" => BroughtBack(r)

\* q replaces the evidence_note: a verification, or an update that carries one.
Rewrites(q) ==
  call[q].kind = "verify" \/ (call[q].kind = "update" /\ call[q].note)

\* A reason stays in the evidence note: if one that was recorded is no longer there, the
\* note was replaced by a later request, or by one that was under way at the same time and
\* had read the note before (Invalidate and Restore append to the note they read, Update
\* writes it back).
ReasonsAreKept ==
  \A r \in Requests :
    answer[r] = "ok" /\ call[r].kind \in {"create", "invalidate", "restore"}
      /\ r \notin safeguard.note =>
    \E q \in Requests \ {r} :
      /\ MayHaveWritten(q) /\ q \notin precede[r]
      /\ Rewrites(q) \/ r \notin precede[q]
=============================================================================
