--------------------------- MODULE ScenarioTimeline ---------------------------
(***************************************************************************)
(* The answers of Update and Transition: the scenario with its timeline,   *)
(* which Get of backend/internal/service/deviation_scenario_service.go     *)
(* puts together from the audit log.                                       *)
(*                                                                         *)
(* ScenarioReview records an audit entry and answers in a step each.  Here *)
(* these are two: recordAudit reads the clock and then inserts; Get reads  *)
(* the row and then a page of the log, on which the entries of all         *)
(* scenarios compete for PageSize places, newest first by created_at.      *)
(***************************************************************************)
EXTENDS ScenarioReview, FiniteSets, Sequences

CONSTANTS
  PageSize,         \* entries on the page Get asks for (100 in the code)
  MaxDisturbances   \* bound: faults and entries on other scenarios together

ASSUME PageAssumption == PageSize \in Nat \ {0} /\ MaxDisturbances \in Nat

VARIABLES
  log,       \* table audit_logs, all entries on scenarios, in the order of their ids
  clock,     \* the latest time a handler has read
  stamp,     \* stamp[r]: created_at of the entry r is to insert
  shown,     \* shown[r]: the row Get has read for r
  timeline,  \* timeline[r]: the timeline r is answered, as requests; None without one
  precede    \* precede[r]: the requests answered "ok" before r was sent (history)

timelineVars == <<vars, log, clock, stamp, shown, timeline, precede>>

\* writer is None for an entry on another scenario.  Older entries than those of the
\* model come after them on every page and are left out.
LogRows == [writer : Requests \cup {None}, at : Nat]

TimelineTypeOK ==
  /\ log \in Seq(LogRows)
  /\ clock \in Nat
  /\ stamp \in [Requests -> Nat \cup {None}]
  /\ shown \in [Requests -> Rows \cup {None}]
  /\ timeline \in [Requests -> Seq(Requests) \cup {None}]
  /\ precede \in [Requests -> SUBSET Requests]

TimelineInit ==
  /\ Init
  /\ log = <<>>
  /\ clock = 0
  /\ stamp = [r \in Requests |-> None]
  /\ shown = [r \in Requests |-> None]
  /\ timeline = [r \in Requests |-> None]
  /\ precede = [r \in Requests |-> {}]

-----------------------------------------------------------------------------
Disturbances == faults + Cardinality({i \in DOMAIN log : log[i].writer = None})

SendAndNote(r) ==
  /\ Send(r)
  /\ precede' = [precede EXCEPT ![r] = {q \in Requests : answer[q] = "ok"}]
  /\ UNCHANGED <<log, clock, stamp, shown, timeline>>

ServeUntilAudit(r) ==
  /\ Open(r) \/ Read(r) \/ Write(r)
  /\ UNCHANGED <<log, clock, stamp, shown, timeline, precede>>

(* recordAudit.                                                            *)

ReadClock(r) ==
  /\ pc[r] = "audit" /\ stamp[r] = None
  /\ clock' = clock + 1
  /\ stamp' = [stamp EXCEPT ![r] = clock']
  /\ UNCHANGED <<vars, log, shown, timeline, precede>>

InsertEntry(r) ==
  /\ stamp[r] # None
  /\ RecordAudit(r)
  /\ log' = Append(log, [writer |-> r, at |-> stamp[r]])
  /\ UNCHANGED <<clock, stamp, shown, timeline, precede>>

\* A handler of another scenario reads the clock and inserts an entry.
InsertForeign ==
  /\ Disturbances < MaxDisturbances
  /\ clock' = clock + 1
  /\ log' = Append(log, [writer |-> None, at |-> clock'])
  /\ UNCHANGED <<vars, stamp, shown, timeline, precede>>

(* Get.                                                                    *)

\* Mutant: the handler answers with the copy it worked on.
CurrentRowStale(r) == local[r]

CurrentRow(r) == scenario

ReadRow(r) ==
  /\ pc[r] = "get" /\ shown[r] = None
  /\ shown' = [shown EXCEPT ![r] = CurrentRow(r)]
  /\ UNCHANGED <<vars, log, clock, stamp, timeline, precede>>

\* created_at DESC, id DESC.
Newer(i, j) == log[i].at > log[j].at \/ (log[i].at = log[j].at /\ i > j)

\* Mutant: the page starts with the oldest entry.
OldestPage == {i \in DOMAIN log : Cardinality({j \in DOMAIN log : Newer(i, j)}) < PageSize}

Page == {i \in DOMAIN log : Cardinality({j \in DOMAIN log : Newer(j, i)}) < PageSize}

\* Of the page, what the loop of Get keeps.
IsEvent(i) == log[i].writer # None /\ call[log[i].writer].kind = "transition"

Events == {i \in Page : IsEvent(i)}

\* Mutant: the page is not turned around.
TimelineNewestFirst ==
  [k \in 1..Cardinality(Events) |->
     log[CHOOSE i \in Events : Cardinality({j \in Events : Newer(j, i)}) = k - 1].writer]

\* The events of the page, oldest first.
Timeline ==
  [k \in 1..Cardinality(Events) |->
     log[CHOOSE i \in Events : Cardinality({j \in Events : Newer(i, j)}) = k - 1].writer]

\* When the list fails the answer has no timeline.
AnswerWithTimeline(r) ==
  /\ shown[r] # None
  /\ Get(r)
  /\ \/ timeline' = [timeline EXCEPT ![r] = Timeline]
     \/ UNCHANGED timeline
  /\ UNCHANGED <<log, clock, stamp, shown, precede>>

\* A statement that fails ends the request, but the page of the log.
Fails(r) ==
  /\ Disturbances < MaxDisturbances
  /\ pc[r] = "get" => shown[r] = None
  /\ StatementFails(r)
  /\ UNCHANGED <<log, clock, stamp, shown, timeline, precede>>

-----------------------------------------------------------------------------
TimelineNext ==
  \/ \E r \in Requests :
       \/ SendAndNote(r) \/ ServeUntilAudit(r) \/ ReadClock(r) \/ InsertEntry(r)
       \/ ReadRow(r) \/ AnswerWithTimeline(r) \/ Fails(r)
  \/ InsertForeign
  \/ /\ Crash /\ Disturbances < MaxDisturbances
     /\ UNCHANGED <<log, clock, stamp, shown, timeline, precede>>
  \/ Quiescent /\ UNCHANGED <<log, clock, stamp, shown, timeline, precede>>

TimelineSpec == TimelineInit /\ [][TimelineNext]_timelineVars

-----------------------------------------------------------------------------
(* Safety.                                                                 *)

\* An answer shows the scenario at least as it was when its request changed it, and as
\* everything answered before the request was sent had left it (Get after Update and
\* Transition).
AnswerIsCurrent ==
  \A r \in Requests : answer[r] = "ok" =>
    \A q \in precede[r] \cup {r} : answer[q] = "ok" => shown[r].version > view[q].version

\* Handlers read the clock after their change and insert their entries later, so entries
\* may be out of order; but a timeline never shows a transition before one that was
\* answered before the first was asked for (recordAudit, List, Get).
TimelineFollowsHistory ==
  \A r \in Requests : timeline[r] # None =>
    \A i, j \in DOMAIN timeline[r] : i < j => timeline[r][j] \notin precede[timeline[r][i]]

\* A timeline contains the transition of its own request and every transition answered
\* before that was sent, unless a page of newer entries has been recorded, be it on other
\* scenarios (the page of 100 entries in Get).
TimelineIsComplete ==
  \A r \in Requests : timeline[r] # None =>
    \A i \in DOMAIN log :
      IsEvent(i) /\ log[i].writer \in precede[r] \cup {r} =>
        \/ \E k \in DOMAIN timeline[r] : timeline[r][k] = log[i].writer
        \/ Cardinality({j \in DOMAIN log : Newer(j, i)}) >= PageSize
=============================================================================
