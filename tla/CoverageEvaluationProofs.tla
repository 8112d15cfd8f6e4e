----------------------- MODULE CoverageEvaluationProofs -----------------------
(***************************************************************************)
(* Theorems about CoverageEvaluation, for any number of requests, users,   *)
(* keys and scenarios, any traffic, and any number of edits and faults.    *)
(***************************************************************************)
EXTENDS CoverageEvaluation, TLAPS

RunStatements == {"findByKey", "getScenario", "getNode", "listSafeguards", "create",
                  "findAgain", "start", "finish"}
KeyedStatements == RunStatements \ {"findByKey"}
DraftStatements == {"getNode", "listSafeguards", "create", "start", "finish"}
TargetStatements == {"getEvaluation", "getAuthor", "confirm", "void", "storeReplay",
                     "answerReplay"}
SeenStatements == TargetStatements \ {"getEvaluation"}
EndStatements == {"reload", "audit"}

\* What a handler has in its locals at each of its statements: TypeOK is not
\* inductive without it, because statements use what earlier ones loaded.
Loaded(r) ==
  /\ pc[r] # "idle" => call[r] \in Calls
  /\ pc[r] \in RunStatements => call[r].kind = "run"
  /\ pc[r] \in KeyedStatements => call[r].key \in Keys
  /\ pc[r] \in DraftStatements => /\ draft[r] \in Snapshots
                                  /\ call[r].scenario \in Scenarios
  /\ pc[r] \in {"start", "finish"} => r \in DOMAIN evaluations
  /\ pc[r] \in TargetStatements => call[r].kind # "run"
  /\ pc[r] \in EndStatements /\ call[r].kind = "run" => r \in DOMAIN evaluations
  /\ pc[r] \in SeenStatements \/ (pc[r] \in EndStatements /\ call[r].kind # "run")
       => seen[r] \in Rows /\ call[r].target \in DOMAIN evaluations
  /\ pc[r] \in {"storeReplay", "answerReplay"} => call[r].kind = "replay"
  /\ pc[r] = "audit" /\ call[r].kind \in {"confirm", "void"} => after[r] \in Rows

TypeInv == TypeOK /\ \A r \in Requests : Loaded(r)

LEMMA InitTypeInv == Init => TypeInv
BY ConstantsAssumption DEF Init, TypeInv, TypeOK, Loaded, Editions, Answers, Statuses,
  RunStatements,  KeyedStatements, DraftStatements, TargetStatements, SeenStatements,
  EndStatements

LEMMA CallFields ==
  ASSUME NEW c \in Calls
  PROVE  /\ c.kind = "run" => c \in RunCalls
         /\ c.kind # "run" => c \in TargetCalls
BY DEF Calls, RunCalls, TargetCalls


\* Moving on and answering keep the types of pc and answer.
LEMMA Moving ==
  ASSUME TypeOK, NEW r \in Requests
  PROVE  /\ \A l \in Statements : Goto(r, l) =>
              /\ pc' \in [Requests -> Statements \cup {"idle", "done"}]
              /\ answer' \in [Requests -> Answers]
         /\ \A st \in Statuses, id \in Requests \cup {None} : Reply(r, st, id) =>
              /\ pc' \in [Requests -> Statements \cup {"idle", "done"}]
              /\ answer' \in [Requests -> Answers]
BY DEF TypeOK, Goto, Reply, Answers

\* A step of one request leaves the other requests as they are.
LEMMA Frame ==
  ASSUME TypeInv, NEW q \in Requests,
         pc'[q] = pc[q], call'[q] = call[q], draft'[q] = draft[q],
         seen'[q] = seen[q], after'[q] = after[q],
         DOMAIN evaluations \subseteq DOMAIN evaluations'
  PROVE  Loaded(q)'
BY DEF TypeInv, Loaded, RunStatements, KeyedStatements, DraftStatements, TargetStatements,
  SeenStatements, EndStatements

\* An UPDATE of a row by a row keeps the table.
LEMMA Stored ==
  ASSUME TypeOK, NEW id \in DOMAIN evaluations, NEW row \in Rows, Store(id, row)
  PROVE  evaluations' \in [DOMAIN evaluations -> Rows] /\ DOMAIN evaluations' = DOMAIN evaluations
BY DEF TypeOK, Store

LEMMA FindByKeyType ==
  ASSUME TypeInv, NEW r \in Requests, FindByKey(r)
  PROVE  TypeInv'
<1>0. call[r] \in RunCalls
  BY CallFields DEF TypeInv, Loaded, FindByKey, RunStatements
<1>t. TypeOK'
  BY <1>0, Moving DEF TypeInv, TypeOK, FindByKey, Statements, Statuses, FindByIdempotencyKey
<1>l. Loaded(r)'
  BY <1>0, ConstantsAssumption DEF TypeInv, TypeOK, Loaded, FindByKey, Goto, Reply, Insert,
    Store, RunCalls, TargetCalls, FindByIdempotencyKey, RunStatements, KeyedStatements,
    DraftStatements, TargetStatements, SeenStatements, EndStatements, Statements
<1>f. ASSUME NEW q \in Requests, q # r
      PROVE  Loaded(q)'
  BY <1>f, Frame DEF TypeInv, TypeOK, FindByKey, Goto, Reply, Insert, Store
<1> QED BY <1>t, <1>l, <1>f DEF TypeInv

LEMMA GetScenarioType ==
  ASSUME TypeInv, NEW r \in Requests, GetScenario(r)
  PROVE  TypeInv'
<1>0. call[r] \in RunCalls
  BY CallFields DEF TypeInv, Loaded, GetScenario, RunStatements
<1>1. draft' \in [Requests -> Snapshots \cup {None}]
  <2>1. CASE draft' = draft
    BY <2>1 DEF TypeInv, TypeOK
  <2>2. CASE draft' # draft
    <3>1. call[r].scenario \in Scenarios /\ draft'[r] \in Snapshots
      BY <2>2, <1>0, ConstantsAssumption DEF GetScenario, TypeInv, TypeOK, Loaded,
        DraftStatements, Snapshots, Editions, Parts
    <3> QED
      BY <3>1 DEF GetScenario, TypeInv, TypeOK
  <2> QED BY <2>1, <2>2
<1>t. TypeOK'
  BY <1>0, <1>1, Moving DEF TypeInv, TypeOK, GetScenario, Statements, Statuses
<1>l. Loaded(r)'
  BY <1>0, <1>1, ConstantsAssumption DEF TypeInv, TypeOK, Loaded, GetScenario, Goto, Reply,
    Insert, Store, RunCalls, TargetCalls, Snapshots, Editions, Parts, RunStatements,
    KeyedStatements, DraftStatements, TargetStatements, SeenStatements, EndStatements,
    Statements
<1>f. ASSUME NEW q \in Requests, q # r
      PROVE  Loaded(q)'
  BY <1>f, Frame DEF TypeInv, TypeOK, GetScenario, Goto, Reply, Insert, Store
<1> QED BY <1>t, <1>l, <1>f DEF TypeInv

LEMMA GetNodeType ==
  ASSUME TypeInv, NEW r \in Requests, GetNode(r)
  PROVE  TypeInv'
<1>0. call[r] \in RunCalls
  BY CallFields DEF TypeInv, Loaded, GetNode, RunStatements
<1>1. draft' \in [Requests -> Snapshots \cup {None}]
  <2>1. CASE draft' = draft
    BY <2>1 DEF TypeInv, TypeOK
  <2>2. CASE draft' # draft
    <3>1. call[r].scenario \in Scenarios /\ draft'[r] \in Snapshots
      BY <2>2, <1>0, ConstantsAssumption DEF GetNode, TypeInv, TypeOK, Loaded,
        DraftStatements, Snapshots, Editions, Parts
    <3> QED
      BY <3>1 DEF GetNode, TypeInv, TypeOK
  <2> QED BY <2>1, <2>2
<1>t. TypeOK'
  BY <1>0, <1>1, Moving DEF TypeInv, TypeOK, GetNode, Statements, Statuses
<1>l. Loaded(r)'
  BY <1>0, <1>1, ConstantsAssumption DEF TypeInv, TypeOK, Loaded, GetNode, Goto, Reply,
    Insert, Store, RunCalls, TargetCalls, Snapshots, Parts, RunStatements, KeyedStatements,
    DraftStatements, TargetStatements, SeenStatements, EndStatements, Statements
<1>f. ASSUME NEW q \in Requests, q # r
      PROVE  Loaded(q)'
  BY <1>f, Frame DEF TypeInv, TypeOK, GetNode, Goto, Reply, Insert, Store
<1> QED BY <1>t, <1>l, <1>f DEF TypeInv

LEMMA ListSafeguardsType ==
  ASSUME TypeInv, NEW r \in Requests, ListSafeguards(r)
  PROVE  TypeInv'
<1>0. call[r] \in RunCalls
  BY CallFields DEF TypeInv, Loaded, ListSafeguards, RunStatements
<1>1. draft' \in [Requests -> Snapshots \cup {None}]
  <2>1. CASE draft' = draft
    BY <2>1 DEF TypeInv, TypeOK
  <2>2. CASE draft' # draft
    <3>1. call[r].scenario \in Scenarios /\ draft'[r] \in Snapshots
      BY <2>2, <1>0, ConstantsAssumption DEF ListSafeguards, TypeInv, TypeOK, Loaded,
        DraftStatements, Snapshots, Editions, Parts
    <3> QED
      BY <3>1 DEF ListSafeguards, TypeInv, TypeOK
  <2> QED BY <2>1, <2>2
<1>t. TypeOK'
  BY <1>0, <1>1, Moving DEF TypeInv, TypeOK, ListSafeguards, Statements, Statuses
<1>l. Loaded(r)'
  BY <1>0, <1>1, ConstantsAssumption DEF TypeInv, TypeOK, Loaded, ListSafeguards, Goto,
    Reply, Insert, Store, RunCalls, TargetCalls, Snapshots, Parts, RunStatements,
    KeyedStatements, DraftStatements, TargetStatements, SeenStatements, EndStatements,
    Statements
<1>f. ASSUME NEW q \in Requests, q # r
      PROVE  Loaded(q)'
  BY <1>f, Frame DEF TypeInv, TypeOK, ListSafeguards, Goto, Reply, Insert, Store
<1> QED BY <1>t, <1>l, <1>f DEF TypeInv

LEMMA FindAgainType ==
  ASSUME TypeInv, NEW r \in Requests, FindAgain(r)
  PROVE  TypeInv'
<1>0. call[r] \in RunCalls
  BY CallFields DEF TypeInv, Loaded, FindAgain, RunStatements
<1>t. TypeOK'
  BY <1>0, Moving DEF TypeInv, TypeOK, FindAgain, Statements, Statuses, FindByIdempotencyKey
<1>l. Loaded(r)'
  BY <1>0, ConstantsAssumption DEF TypeInv, TypeOK, Loaded, FindAgain, Goto, Reply, Insert,
    Store, RunCalls, TargetCalls, FindByIdempotencyKey, RunStatements, KeyedStatements,
    DraftStatements, TargetStatements, SeenStatements, EndStatements, Statements
<1>f. ASSUME NEW q \in Requests, q # r
      PROVE  Loaded(q)'
  BY <1>f, Frame DEF TypeInv, TypeOK, FindAgain, Goto, Reply, Insert, Store
<1> QED BY <1>t, <1>l, <1>f DEF TypeInv

LEMMA CreateType ==
  ASSUME TypeInv, NEW r \in Requests, Create(r)
  PROVE  TypeInv'
<1>0. call[r] \in RunCalls
  BY CallFields DEF TypeInv, Loaded, Create, RunStatements
<1>1. Queued(r) \in Rows
  BY <1>0, ConstantsAssumption DEF TypeInv, Loaded, Create, Queued, Rows, RunCalls,
    KeyedStatements, RunStatements, DraftStatements, EvaluationStates, Scores
<1>t. TypeOK'
  BY <1>0, <1>1, Moving DEF TypeInv, TypeOK, Create, Statements, Statuses, Insert
<1>l. Loaded(r)'
  BY <1>0, <1>1, ConstantsAssumption DEF TypeInv, TypeOK, Loaded, Create, Goto, Reply,
    Insert, Store, RunCalls, TargetCalls, Insert, RunStatements, KeyedStatements,
    DraftStatements, TargetStatements, SeenStatements, EndStatements, Statements
<1>f. ASSUME NEW q \in Requests, q # r
      PROVE  Loaded(q)'
  BY <1>f, Frame DEF TypeInv, TypeOK, Create, Goto, Reply, Insert, Store
<1> QED BY <1>t, <1>l, <1>f DEF TypeInv

LEMMA StartRunType ==
  ASSUME TypeInv, NEW r \in Requests, StartRun(r)
  PROVE  TypeInv'
<1>0. call[r] \in RunCalls
  BY CallFields DEF TypeInv, Loaded, StartRun, RunStatements
<1>1. r \in DOMAIN evaluations /\ evaluations[r] \in Rows
  BY <1>0 DEF TypeInv, TypeOK, Loaded, StartRun, RunStatements
<1>2. [evaluations[r] EXCEPT !.state = "running"] \in Rows
  BY <1>0, <1>1 DEF Rows, EvaluationStates
<1>3. evaluations' \in [DOMAIN evaluations -> Rows] /\ DOMAIN evaluations' = DOMAIN evaluations
  BY <1>1, <1>2, Stored DEF TypeInv, TypeOK, StartRun
<1>t. TypeOK'
  BY <1>0, <1>1, <1>3, Moving DEF TypeInv, TypeOK, StartRun, Statements, Statuses
<1>l. Loaded(r)'
  BY <1>0, <1>1, <1>3, ConstantsAssumption DEF TypeInv, TypeOK, Loaded, StartRun, Goto,
    Reply, Insert, Store, RunCalls, TargetCalls, RunStatements, KeyedStatements,
    DraftStatements, TargetStatements, SeenStatements, EndStatements, Statements
<1>f. ASSUME NEW q \in Requests, q # r
      PROVE  Loaded(q)'
  BY <1>f, Frame DEF TypeInv, TypeOK, StartRun, Goto, Reply, Insert, Store
<1> QED BY <1>t, <1>l, <1>f DEF TypeInv

LEMMA FailRunType ==
  ASSUME TypeInv, NEW r \in Requests, FailRun(r)
  PROVE  TypeInv'
<1>0. call[r] \in RunCalls
  BY CallFields DEF TypeInv, Loaded, FailRun, RunStatements
<1>1. r \in DOMAIN evaluations /\ evaluations[r] \in Rows
  BY <1>0 DEF TypeInv, TypeOK, Loaded, FailRun, RunStatements
<1>2. [evaluations[r] EXCEPT !.state = "failed"] \in Rows
  BY <1>0, <1>1 DEF Rows, EvaluationStates
<1>3. evaluations' \in [DOMAIN evaluations -> Rows] /\ DOMAIN evaluations' = DOMAIN evaluations
  BY <1>1, <1>2, Stored DEF TypeInv, TypeOK, FailRun
<1>t. TypeOK'
  BY <1>0, <1>1, <1>3, Moving DEF TypeInv, TypeOK, FailRun, Statements, Statuses
<1>l. Loaded(r)'
  BY <1>0, <1>1, <1>3, ConstantsAssumption DEF TypeInv, TypeOK, Loaded, FailRun, Goto,
    Reply, Insert, Store, RunCalls, TargetCalls, RunStatements, KeyedStatements,
    DraftStatements, TargetStatements, SeenStatements, EndStatements, Statements
<1>f. ASSUME NEW q \in Requests, q # r
      PROVE  Loaded(q)'
  BY <1>f, Frame DEF TypeInv, TypeOK, FailRun, Goto, Reply, Insert, Store
<1> QED BY <1>t, <1>l, <1>f DEF TypeInv

LEMMA CompleteRunType ==
  ASSUME TypeInv, NEW r \in Requests, CompleteRun(r)
  PROVE  TypeInv'
<1>0. call[r] \in RunCalls
  BY CallFields DEF TypeInv, Loaded, CompleteRun, RunStatements
<1>a. draft[r] \in Snapshots /\ Score[draft[r]] \in Scores
  BY <1>0 DEF TypeInv, Loaded, CompleteRun, DraftStatements, Scores
<1>1. r \in DOMAIN evaluations /\ evaluations[r] \in Rows
  BY <1>0 DEF TypeInv, TypeOK, Loaded, CompleteRun, RunStatements
<1>2. [evaluations[r] EXCEPT !.state = "completed", !.snapshot = draft[r], !.score = Score[draft[r]]] \in Rows
  BY <1>0, <1>1, <1>a DEF Rows, EvaluationStates
<1>3. evaluations' \in [DOMAIN evaluations -> Rows] /\ DOMAIN evaluations' = DOMAIN evaluations
  BY <1>1, <1>2, Stored DEF TypeInv, TypeOK, CompleteRun
<1>t. TypeOK'
  BY <1>0, <1>1, <1>3, Moving DEF TypeInv, TypeOK, CompleteRun, Statements, Statuses
<1>l. Loaded(r)'
  BY <1>0, <1>1, <1>3, ConstantsAssumption DEF TypeInv, TypeOK, Loaded, CompleteRun, Goto,
    Reply, Insert, Store, RunCalls, TargetCalls, RunStatements, KeyedStatements,
    DraftStatements, TargetStatements, SeenStatements, EndStatements, Statements
<1>f. ASSUME NEW q \in Requests, q # r
      PROVE  Loaded(q)'
  BY <1>f, Frame DEF TypeInv, TypeOK, CompleteRun, Goto, Reply, Insert, Store
<1> QED BY <1>t, <1>l, <1>f DEF TypeInv

LEMMA GetEvaluationType ==
  ASSUME TypeInv, NEW r \in Requests, GetEvaluation(r)
  PROVE  TypeInv'
<1>0. call[r] \in TargetCalls
  BY CallFields DEF TypeInv, Loaded, GetEvaluation, TargetStatements, SeenStatements
<1>t. TypeOK'
  BY <1>0, Moving DEF TypeInv, TypeOK, GetEvaluation, Statements, Statuses,
    AfterGetEvaluation, TargetCalls
<1>l. Loaded(r)'
  BY <1>0, ConstantsAssumption DEF TypeInv, TypeOK, Loaded, GetEvaluation, Goto, Reply,
    Insert, Store, RunCalls, TargetCalls, AfterGetEvaluation, RunStatements,
    KeyedStatements, DraftStatements, TargetStatements, SeenStatements, EndStatements,
    Statements
<1>f. ASSUME NEW q \in Requests, q # r
      PROVE  Loaded(q)'
  BY <1>f, Frame DEF TypeInv, TypeOK, GetEvaluation, Goto, Reply, Insert, Store
<1> QED BY <1>t, <1>l, <1>f DEF TypeInv

LEMMA GetAuthorType ==
  ASSUME TypeInv, NEW r \in Requests, GetAuthor(r)
  PROVE  TypeInv'
<1>0. call[r] \in TargetCalls
  BY CallFields DEF TypeInv, Loaded, GetAuthor, TargetStatements, SeenStatements
<1>t. TypeOK'
  BY <1>0, Moving DEF TypeInv, TypeOK, GetAuthor, Statements, Statuses
<1>l. Loaded(r)'
  BY <1>0, ConstantsAssumption DEF TypeInv, TypeOK, Loaded, GetAuthor, Goto, Reply, Insert,
    Store, RunCalls, TargetCalls, RunStatements, KeyedStatements, DraftStatements,
    TargetStatements, SeenStatements, EndStatements, Statements
<1>f. ASSUME NEW q \in Requests, q # r
      PROVE  Loaded(q)'
  BY <1>f, Frame DEF TypeInv, TypeOK, GetAuthor, Goto, Reply, Insert, Store
<1> QED BY <1>t, <1>l, <1>f DEF TypeInv

LEMMA ConfirmType ==
  ASSUME TypeInv, NEW r \in Requests, Confirm(r)
  PROVE  TypeInv'
<1>0. call[r] \in TargetCalls
  BY CallFields DEF TypeInv, Loaded, Confirm, TargetStatements, SeenStatements
<1>1. call[r].target \in DOMAIN evaluations /\ evaluations[call[r].target] \in Rows
  BY <1>0 DEF TypeInv, TypeOK, Loaded, Confirm, TargetStatements, SeenStatements
<1>2. [evaluations[call[r].target] EXCEPT !.state = "confirmed", !.confirmedBy = call[r].actor] \in Rows
  BY <1>0, <1>1 DEF Rows, EvaluationStates, TargetCalls
<1>3. evaluations' \in [DOMAIN evaluations -> Rows] /\ DOMAIN evaluations' = DOMAIN evaluations
  BY <1>1, <1>2, Stored DEF TypeInv, TypeOK, Confirm
<1>t. TypeOK'
  BY <1>0, <1>1, <1>3, Moving DEF TypeInv, TypeOK, Confirm, Statements, Statuses
<1>l. Loaded(r)'
  BY <1>0, <1>1, <1>3, ConstantsAssumption DEF TypeInv, TypeOK, Loaded, Confirm, Goto,
    Reply, Insert, Store, RunCalls, TargetCalls, RunStatements, KeyedStatements,
    DraftStatements, TargetStatements, SeenStatements, EndStatements, Statements
<1>f. ASSUME NEW q \in Requests, q # r
      PROVE  Loaded(q)'
  BY <1>f, Frame DEF TypeInv, TypeOK, Confirm, Goto, Reply, Insert, Store
<1> QED BY <1>t, <1>l, <1>f DEF TypeInv

LEMMA VoidType ==
  ASSUME TypeInv, NEW r \in Requests, Void(r)
  PROVE  TypeInv'
<1>0. call[r] \in TargetCalls
  BY CallFields DEF TypeInv, Loaded, Void, TargetStatements, SeenStatements
<1>1. call[r].target \in DOMAIN evaluations /\ evaluations[call[r].target] \in Rows
  BY <1>0 DEF TypeInv, TypeOK, Loaded, Void, TargetStatements, SeenStatements
<1>2. [evaluations[call[r].target] EXCEPT !.state = "voided"] \in Rows
  BY <1>0, <1>1 DEF Rows, EvaluationStates
<1>3. evaluations' \in [DOMAIN evaluations -> Rows] /\ DOMAIN evaluations' = DOMAIN evaluations
  BY <1>1, <1>2, Stored DEF TypeInv, TypeOK, Void
<1>t. TypeOK'
  BY <1>0, <1>1, <1>3, Moving DEF TypeInv, TypeOK, Void, Statements, Statuses
<1>l. Loaded(r)'
  BY <1>0, <1>1, <1>3, ConstantsAssumption DEF TypeInv, TypeOK, Loaded, Void, Goto, Reply,
    Insert, Store, RunCalls, TargetCalls, RunStatements, KeyedStatements, DraftStatements,
    TargetStatements, SeenStatements, EndStatements, Statements
<1>f. ASSUME NEW q \in Requests, q # r
      PROVE  Loaded(q)'
  BY <1>f, Frame DEF TypeInv, TypeOK, Void, Goto, Reply, Insert, Store
<1> QED BY <1>t, <1>l, <1>f DEF TypeInv

LEMMA StoreReplayType ==
  ASSUME TypeInv, NEW r \in Requests, StoreReplay(r)
  PROVE  TypeInv'
<1>0. call[r] \in TargetCalls
  BY CallFields DEF TypeInv, Loaded, StoreReplay, TargetStatements, SeenStatements
<1>1. call[r].target \in DOMAIN evaluations /\ evaluations[call[r].target] \in Rows
  BY <1>0 DEF TypeInv, TypeOK, Loaded, StoreReplay, TargetStatements, SeenStatements
<1>2. [evaluations[call[r].target] EXCEPT !.replay = IF ReplayPasses(r) THEN "passed" ELSE "mismatch"] \in Rows
  BY <1>0, <1>1 DEF Rows, EvaluationStates
<1>3. evaluations' \in [DOMAIN evaluations -> Rows] /\ DOMAIN evaluations' = DOMAIN evaluations
  BY <1>1, <1>2, Stored DEF TypeInv, TypeOK, StoreReplay
<1>t. TypeOK'
  BY <1>0, <1>1, <1>3, Moving DEF TypeInv, TypeOK, StoreReplay, Statements, Statuses
<1>l. Loaded(r)'
  BY <1>0, <1>1, <1>3, ConstantsAssumption DEF TypeInv, TypeOK, Loaded, StoreReplay, Goto,
    Reply, Insert, Store, RunCalls, TargetCalls, RunStatements, KeyedStatements,
    DraftStatements, TargetStatements, SeenStatements, EndStatements, Statements
<1>f. ASSUME NEW q \in Requests, q # r
      PROVE  Loaded(q)'
  BY <1>f, Frame DEF TypeInv, TypeOK, StoreReplay, Goto, Reply, Insert, Store
<1> QED BY <1>t, <1>l, <1>f DEF TypeInv

LEMMA ReloadType ==
  ASSUME TypeInv, NEW r \in Requests, Reload(r)
  PROVE  TypeInv'
<1>0. Subject(r) \in DOMAIN evaluations /\ call[r] \in Calls
  BY DEF TypeInv, TypeOK, Loaded, Reload, Subject, EndStatements
<1>t. TypeOK'
  BY <1>0, Moving DEF TypeInv, TypeOK, Reload, Statements, Statuses
<1>l. Loaded(r)'
  BY <1>0, ConstantsAssumption DEF TypeInv, TypeOK, Loaded, Reload, Goto, Reply, Insert,
    Store, RunCalls, TargetCalls, RunStatements, KeyedStatements, DraftStatements,
    TargetStatements, SeenStatements, EndStatements, Statements
<1>f. ASSUME NEW q \in Requests, q # r
      PROVE  Loaded(q)'
  BY <1>f, Frame DEF TypeInv, TypeOK, Reload, Goto, Reply, Insert, Store
<1> QED BY <1>t, <1>l, <1>f DEF TypeInv

LEMMA RecordAuditType ==
  ASSUME TypeInv, NEW r \in Requests, RecordAudit(r)
  PROVE  TypeInv'
<1>0. Subject(r) \in DOMAIN evaluations /\ call[r] \in Calls
  BY DEF TypeInv, TypeOK, Loaded, RecordAudit, Subject, EndStatements
<1>1. AuditEntry(r) \in AuditRows
  <2>1. call[r].kind \in {"confirm", "void"} => seen[r].state \in EvaluationStates /\ after[r].state \in EvaluationStates
    BY <1>0 DEF TypeInv, Loaded, RecordAudit, EndStatements, Rows
  <2>2. call[r].kind \in {"run", "confirm", "void", "replay"} /\ call[r].actor \in Users
    BY <1>0 DEF Calls, RunCalls, TargetCalls
  <2> QED BY <1>0, <2>1, <2>2 DEF AuditEntry, AuditRows, TypeInv, TypeOK
<1>t. TypeOK'
  BY <1>0, <1>1, Moving DEF TypeInv, TypeOK, RecordAudit, Statements, Statuses
<1>l. Loaded(r)'
  BY <1>0, <1>1, ConstantsAssumption DEF TypeInv, TypeOK, Loaded, RecordAudit, Goto, Reply,
    Insert, Store, RunCalls, TargetCalls, RunStatements, KeyedStatements, DraftStatements,
    TargetStatements, SeenStatements, EndStatements, Statements
<1>f. ASSUME NEW q \in Requests, q # r
      PROVE  Loaded(q)'
  BY <1>f, Frame DEF TypeInv, TypeOK, RecordAudit, Goto, Reply, Insert, Store
<1> QED BY <1>t, <1>l, <1>f DEF TypeInv

LEMMA AnswerReplayType ==
  ASSUME TypeInv, NEW r \in Requests, AnswerReplay(r)
  PROVE  TypeInv'
<1>0. call[r] \in TargetCalls
  BY CallFields DEF TypeInv, Loaded, AnswerReplay, TargetStatements, SeenStatements
<1>t. TypeOK'
  BY <1>0, Moving DEF TypeInv, TypeOK, AnswerReplay, Statements, Statuses, TargetCalls
<1>l. Loaded(r)'
  BY <1>0, ConstantsAssumption DEF TypeInv, TypeOK, Loaded, AnswerReplay, Goto, Reply,
    Insert, Store, RunCalls, TargetCalls, RunStatements, KeyedStatements, DraftStatements,
    TargetStatements, SeenStatements, EndStatements, Statements
<1>f. ASSUME NEW q \in Requests, q # r
      PROVE  Loaded(q)'
  BY <1>f, Frame DEF TypeInv, TypeOK, AnswerReplay, Goto, Reply, Insert, Store
<1> QED BY <1>t, <1>l, <1>f DEF TypeInv

LEMMA ReceiveType ==
  ASSUME TypeInv, NEW r \in Requests, Receive(r)
  PROVE  TypeInv'
<1>0. call' \in [Requests -> Calls \cup {None}] /\ call'[r] \in Calls
  BY ConstantsAssumption DEF TypeInv, TypeOK, Receive
<1>t. TypeOK'
  BY <1>0, Moving DEF TypeInv, TypeOK, Receive, Statements, Statuses
<1>l. Loaded(r)'
  BY <1>0, ConstantsAssumption DEF TypeInv, TypeOK, Loaded, Receive, Goto, Reply, Insert,
    Store, RunCalls, TargetCalls, RunStatements, KeyedStatements, DraftStatements,
    TargetStatements, SeenStatements, EndStatements, Statements
<1>f. ASSUME NEW q \in Requests, q # r
      PROVE  Loaded(q)'
  BY <1>f, Frame DEF TypeInv, TypeOK, Receive, Goto, Reply, Insert, Store
<1> QED BY <1>t, <1>l, <1>f DEF TypeInv

LEMMA StatementFailsType ==
  ASSUME TypeInv, NEW r \in Requests, StatementFails(r)
  PROVE  TypeInv'
<1>t. TypeOK'
  BY ConstantsAssumption, Moving DEF TypeInv, TypeOK, StatementFails, Statements, Statuses
<1>l. Loaded(r)'
  BY ConstantsAssumption, ConstantsAssumption DEF TypeInv, TypeOK, Loaded, StatementFails,
    Goto, Reply, Insert, Store, RunCalls, TargetCalls, RunStatements, KeyedStatements,
    DraftStatements, TargetStatements, SeenStatements, EndStatements, Statements
<1>f. ASSUME NEW q \in Requests, q # r
      PROVE  Loaded(q)'
  BY <1>f, Frame DEF TypeInv, TypeOK, StatementFails, Goto, Reply, Insert, Store
<1> QED BY <1>t, <1>l, <1>f DEF TypeInv

LEMMA EditInputType ==
  ASSUME TypeInv, NEW s \in Scenarios, NEW p \in Parts, EditInput(s, p)
  PROVE  TypeInv'
<1>1. edition' \in [Scenarios -> [Parts -> Editions]]
  BY ConstantsAssumption DEF TypeInv, TypeOK, EditInput, Editions
<1>2. TypeOK'
  BY <1>1 DEF TypeInv, TypeOK, EditInput
<1>3. ASSUME NEW q \in Requests
      PROVE  Loaded(q)'
  BY Frame DEF EditInput
<1> QED BY <1>2, <1>3 DEF TypeInv

LEMMA CrashType == TypeInv /\ Crash => TypeInv'
<1> SUFFICES ASSUME TypeInv, Crash PROVE TypeInv'
  OBVIOUS
<1>1. answer' \in [Requests -> Answers]
  BY DEF Crash, TypeInv, TypeOK, Answers, Statuses
<1>2. faults' \in 0..MaxFaults
  BY ConstantsAssumption DEF Crash, TypeInv, TypeOK
<1>3. TypeOK'
  BY <1>1, <1>2 DEF Crash, TypeInv, TypeOK
<1>4. ASSUME NEW q \in Requests
      PROVE  Loaded(q)'
  <2>1. pc'[q] = pc[q] \/ (pc'[q] = "done" /\ pc[q] \in Statements)
    BY DEF Crash, TypeInv, TypeOK
  <2>2. CASE pc'[q] = pc[q]
    BY <2>2, Frame DEF Crash
  <2>3. CASE pc'[q] = "done" /\ pc[q] \in Statements
    BY <2>3 DEF Crash, TypeInv, Loaded, RunStatements, KeyedStatements, DraftStatements,
      TargetStatements, SeenStatements, EndStatements, Statements
  <2> QED BY <2>1, <2>2, <2>3
<1> QED BY <1>3, <1>4 DEF TypeInv

LEMMA StutterType == TypeInv /\ UNCHANGED vars => TypeInv'
BY DEF TypeInv, TypeOK, Loaded, vars, RunStatements, KeyedStatements, DraftStatements,
  TargetStatements, SeenStatements, EndStatements

LEMMA NextType == TypeInv /\ [Next]_vars => TypeInv'
<1> SUFFICES ASSUME TypeInv, [Next]_vars PROVE TypeInv'
  OBVIOUS
<1>1. ASSUME NEW r \in Requests, Receive(r) \/ Handle(r) \/ StatementFails(r)
      PROVE  TypeInv'
  BY <1>1, ReceiveType, StatementFailsType, FindByKeyType, GetScenarioType, GetNodeType,
    ListSafeguardsType, CreateType, FindAgainType, StartRunType, FailRunType,
    CompleteRunType, GetEvaluationType, GetAuthorType, ConfirmType, VoidType,
    StoreReplayType, ReloadType, RecordAuditType, AnswerReplayType DEF Handle
<1> QED
  BY <1>1, EditInputType, CrashType, StutterType DEF Next, Quiescent

\* The handlers and the tables keep their types; and each statement of a handler finds
\* in its locals what the statements before it loaded.
THEOREM TypeCorrect == Spec => []TypeInv
BY InitTypeInv, NextType, PTL DEF Spec

\* The type invariant of the model-checking runs.
THEOREM TypeOKInvariant == Spec => []TypeOK
<1>1. TypeInv => TypeOK
  BY DEF TypeInv
<1> QED BY <1>1, TypeCorrect, PTL

-----------------------------------------------------------------------------
(* The safety invariants.                                                  *)

\* What the locals of a handler have to do with the rows: a row belongs to the run
\* that inserted it, and the snapshot a handler works on is the one in the table,
\* because no statement changes the snapshot of a row.
Kept(r) ==
  /\ pc[r] = "idle" => answer[r].status = "pending"
  /\ r \in DOMAIN evaluations =>
       pc[r] # "idle" /\ call[r].kind = "run" /\ evaluations[r].key = call[r].key
  /\ pc[r] \in {"start", "finish"} => evaluations[r].snapshot = draft[r]
  /\ pc[r] \in {"getAuthor", "confirm"} =>
       seen[r].snapshot = evaluations[call[r].target].snapshot
  /\ pc[r] \in TargetStatements /\ call[r].kind = "confirm" =>
       HasPermission(RoleOf[call[r].actor], "evaluation:confirm")
  /\ pc[r] \in {"getAuthor", "confirm"} => call[r].kind = "confirm"
  /\ pc[r] = "confirm" => call[r].actor # Author[seen[r].snapshot.scenario]

AllKept == \A r \in Requests : Kept(r)

\* The statements that write the table of evaluations.
Writes(r) == \/ Create(r) \/ StartRun(r) \/ FailRun(r) \/ CompleteRun(r)
             \/ Confirm(r) \/ Void(r) \/ StoreReplay(r)

MayConfirm(u, row) ==
  /\ HasPermission(RoleOf[u], "evaluation:confirm")
  /\ u # Author[row.snapshot.scenario]

\* What an UPDATE may make of a row: one step of its lifecycle, or a replay mark.
RowStep(old, new) ==
  \/ /\ old.state = "queued"
     /\ new = [old EXCEPT !.state = "running"]
  \/ /\ old.state = "running" /\ old.snapshot \in Unevaluable
     /\ new = [old EXCEPT !.state = "failed"]
  \/ /\ old.state = "running" /\ old.snapshot \notin Unevaluable
     /\ new = [old EXCEPT !.state = "completed", !.snapshot = old.snapshot,
                          !.score = Score[old.snapshot]]
  \/ /\ old.state = "completed"
     /\ \E u \in Users : /\ MayConfirm(u, old)
                         /\ new = [old EXCEPT !.state = "confirmed", !.confirmedBy = u]
  \/ /\ old.state \in {"completed", "failed", "confirmed"}
     /\ new = [old EXCEPT !.state = "voided"]
  \/ \E mark \in {"passed", "mismatch"} : new = [old EXCEPT !.replay = mark]

\* Row id is updated, the others stay.
Update(id) ==
  /\ id \in DOMAIN evaluations
  /\ DOMAIN evaluations' = DOMAIN evaluations
  /\ \A other \in DOMAIN evaluations : other # id => evaluations'[other] = evaluations[other]
  /\ RowStep(evaluations[id], evaluations'[id])

\* A queued row is added under a key that had none.
Insertion(r) ==
  /\ r \notin DOMAIN evaluations
  /\ call[r].kind = "run" /\ call[r].key \in Keys /\ draft[r] \in Snapshots
  /\ FindByIdempotencyKey(call[r].key) = {}
  /\ DOMAIN evaluations' = DOMAIN evaluations \cup {r}
  /\ \A other \in DOMAIN evaluations : evaluations'[other] = evaluations[other]
  /\ evaluations'[r] = Queued(r)

\* Every step writes the table by a statement of one handler or not at all.
LEMMA Writers ==
  ASSUME [Next]_vars
  PROVE  (\E r \in Requests : Writes(r)) \/ UNCHANGED evaluations
<1>1. ASSUME NEW r \in Requests, Handle(r)
      PROVE  Writes(r) \/ UNCHANGED evaluations
  BY <1>1 DEF Handle, Writes, FindByKey, GetScenario, GetNode, ListSafeguards, FindAgain,
    GetEvaluation, GetAuthor, Reload, RecordAudit, AnswerReplay
<1> QED
  BY <1>1 DEF Next, vars, Receive, StatementFails, EditInput, Crash, Quiescent

\* The statements of the handlers, seen from the table.
LEMMA WriteSteps ==
  ASSUME TypeInv, AllKept, NEW r \in Requests, Writes(r)
  PROVE  UNCHANGED evaluations \/ Insertion(r) \/ \E id \in Requests : Update(id)
<1> SUFFICES ASSUME ~UNCHANGED evaluations
             PROVE  Insertion(r) \/ \E id \in Requests : Update(id)
  OBVIOUS
<1>1. CASE Create(r)
  <2>1. FindByIdempotencyKey(call[r].key) = {} /\ Insert(r, Queued(r))
    BY <1>1 DEF Create
  <2>2. call[r].kind = "run" /\ call[r].key \in Keys /\ draft[r] \in Snapshots
    BY <1>1 DEF Create, TypeInv, Loaded, RunStatements, KeyedStatements, DraftStatements
  <2>3. r \notin DOMAIN evaluations
    BY <2>1 DEF AllKept, Kept, FindByIdempotencyKey
  <2> QED BY <2>1, <2>2, <2>3 DEF Insert, Insertion
<1>2. CASE StartRun(r)
  <2>1. r \in DOMAIN evaluations
    BY <1>2 DEF StartRun, TypeInv, TypeOK, Loaded, AllKept, Kept, RunStatements,
      TargetStatements, SeenStatements
  <2>2. /\ DOMAIN evaluations' = DOMAIN evaluations
        /\ \A id \in DOMAIN evaluations : id # r => evaluations'[id] = evaluations[id]
        /\ evaluations'[r] = [evaluations[r] EXCEPT !.state = "running"]
    BY <1>2, <2>1 DEF StartRun, Store, TypeInv, TypeOK
  <2>5. RowStep(evaluations[r], evaluations'[r])
    BY <1>2, <2>1, <2>2 DEF StartRun, RowStep, Changed, StartableStates
  <2> QED BY <2>1, <2>2, <2>5 DEF Update, TypeInv, TypeOK
<1>3. CASE FailRun(r)
  <2>1. r \in DOMAIN evaluations /\ evaluations[r].snapshot = draft[r]
    BY <1>3 DEF FailRun, TypeInv, TypeOK, Loaded, AllKept, Kept, RunStatements,
      TargetStatements, SeenStatements
  <2>2. /\ DOMAIN evaluations' = DOMAIN evaluations
        /\ \A id \in DOMAIN evaluations : id # r => evaluations'[id] = evaluations[id]
        /\ evaluations'[r] = [evaluations[r] EXCEPT !.state = "failed"]
    BY <1>3, <2>1 DEF FailRun, Store, TypeInv, TypeOK
  <2>5. RowStep(evaluations[r], evaluations'[r])
    BY <1>3, <2>1, <2>2 DEF FailRun, RowStep, Changed, FinishableStates
  <2> QED BY <2>1, <2>2, <2>5 DEF Update, TypeInv, TypeOK
<1>4. CASE CompleteRun(r)
  <2>1. r \in DOMAIN evaluations /\ evaluations[r].snapshot = draft[r]
    BY <1>4 DEF CompleteRun, TypeInv, TypeOK, Loaded, AllKept, Kept, RunStatements,
      TargetStatements, SeenStatements
  <2>2. /\ DOMAIN evaluations' = DOMAIN evaluations
        /\ \A id \in DOMAIN evaluations : id # r => evaluations'[id] = evaluations[id]
        /\ evaluations'[r] = [evaluations[r] EXCEPT !.state = "completed", !.snapshot = draft[r], !.score = Score[draft[r]]]
    BY <1>4, <2>1 DEF CompleteRun, Store, TypeInv, TypeOK
  <2>5. RowStep(evaluations[r], evaluations'[r])
    BY <1>4, <2>1, <2>2 DEF CompleteRun, RowStep, Changed, FinishableStates
  <2> QED BY <2>1, <2>2, <2>5 DEF Update, TypeInv, TypeOK
<1>5. CASE Confirm(r)
  <2>1. call[r].target \in DOMAIN evaluations
    BY <1>5 DEF Confirm, TypeInv, TypeOK, Loaded, AllKept, Kept, RunStatements,
      TargetStatements, SeenStatements
  <2>2. /\ DOMAIN evaluations' = DOMAIN evaluations
        /\ \A id \in DOMAIN evaluations : id # call[r].target => evaluations'[id] = evaluations[id]
        /\ evaluations'[call[r].target] = [evaluations[call[r].target] EXCEPT !.state = "confirmed", !.confirmedBy = call[r].actor]
    BY <1>5, <2>1 DEF Confirm, Store, TypeInv, TypeOK
  <2>3. call[r].actor \in Users /\ MayConfirm(call[r].actor, evaluations[call[r].target])
    <3>1. call[r] \in TargetCalls
      BY <1>5, CallFields DEF Confirm, TypeInv, Loaded, TargetStatements
    <3> QED
      BY <1>5, <3>1 DEF Confirm, AllKept, Kept, MayConfirm, TargetStatements, TargetCalls
  <2>4. evaluations[call[r].target].state = "completed"
    BY <1>5 DEF Confirm, Changed, ConfirmableStates
  <2>5. RowStep(evaluations[call[r].target], evaluations'[call[r].target])
    BY <2>2, <2>3, <2>4 DEF RowStep
  <2> QED BY <2>1, <2>2, <2>5 DEF Update, TypeInv, TypeOK
<1>6. CASE Void(r)
  <2>1. call[r].target \in DOMAIN evaluations
    BY <1>6 DEF Void, TypeInv, TypeOK, Loaded, AllKept, Kept, RunStatements,
      TargetStatements, SeenStatements
  <2>2. /\ DOMAIN evaluations' = DOMAIN evaluations
        /\ \A id \in DOMAIN evaluations : id # call[r].target => evaluations'[id] = evaluations[id]
        /\ evaluations'[call[r].target] = [evaluations[call[r].target] EXCEPT !.state = "voided"]
    BY <1>6, <2>1 DEF Void, Store, TypeInv, TypeOK
  <2>5. RowStep(evaluations[call[r].target], evaluations'[call[r].target])
    BY <1>6, <2>1, <2>2 DEF Void, RowStep, Changed, VoidableStates
  <2> QED BY <2>1, <2>2, <2>5 DEF Update, TypeInv, TypeOK
<1>7. CASE StoreReplay(r)
  <2>1. call[r].target \in DOMAIN evaluations
    BY <1>7 DEF StoreReplay, TypeInv, TypeOK, Loaded, AllKept, Kept, RunStatements,
      TargetStatements, SeenStatements
  <2>2. /\ DOMAIN evaluations' = DOMAIN evaluations
        /\ \A id \in DOMAIN evaluations : id # call[r].target => evaluations'[id] = evaluations[id]
        /\ evaluations'[call[r].target] = [evaluations[call[r].target] EXCEPT !.replay = IF ReplayPasses(r) THEN "passed" ELSE "mismatch"]
    BY <1>7, <2>1 DEF StoreReplay, Store, TypeInv, TypeOK
  <2>5. RowStep(evaluations[call[r].target], evaluations'[call[r].target])
    BY <1>7, <2>1, <2>2 DEF StoreReplay, RowStep
  <2> QED BY <2>1, <2>2, <2>5 DEF Update, TypeInv, TypeOK
<1> QED BY <1>1, <1>2, <1>3, <1>4, <1>5, <1>6, <1>7 DEF Writes

LEMMA TableSteps ==
  ASSUME TypeInv, AllKept, [Next]_vars
  PROVE  \/ UNCHANGED evaluations
         \/ \E r \in Requests : Insertion(r)
         \/ \E id \in Requests : Update(id)
BY Writers, WriteSteps

\* A row stays, with the columns nothing may change.
RowsStay ==
  \A id \in DOMAIN evaluations :
    /\ id \in DOMAIN evaluations'
    /\ evaluations'[id].key = evaluations[id].key
    /\ evaluations'[id].evaluatedBy = evaluations[id].evaluatedBy
    /\ evaluations'[id].snapshot = evaluations[id].snapshot

LEMMA RowsStayUpdate ==
  ASSUME TypeInv, NEW id \in Requests, Update(id)
  PROVE  RowsStay
<1>1. evaluations[id] \in Rows
  BY DEF Update, TypeInv, TypeOK
<1>2. /\ evaluations'[id].key = evaluations[id].key
      /\ evaluations'[id].evaluatedBy = evaluations[id].evaluatedBy
      /\ evaluations'[id].snapshot = evaluations[id].snapshot
  BY <1>1 DEF Update, RowStep, Rows
<1> QED BY <1>2 DEF Update, RowsStay

LEMMA RowsStayStep ==
  ASSUME TypeInv, AllKept, [Next]_vars
  PROVE  RowsStay
<1>2. ASSUME NEW r \in Requests, Insertion(r)
      PROVE  RowsStay
  BY <1>2 DEF Insertion, RowsStay
<1> QED BY <1>2, RowsStayUpdate, TableSteps DEF RowsStay

LEMMA KeptFrame ==
  ASSUME TypeInv, AllKept, RowsStay, NEW q \in Requests,
         q \in DOMAIN evaluations' => q \in DOMAIN evaluations,
         pc'[q] = pc[q], call'[q] = call[q], draft'[q] = draft[q],
         seen'[q] = seen[q], answer'[q] = answer[q]
  PROVE  Kept(q)'
BY DEF TypeInv, Loaded, AllKept, Kept, RowsStay, RunStatements, KeyedStatements,
  DraftStatements, TargetStatements, SeenStatements

LEMMA KeptHandle ==
  ASSUME TypeInv, AllKept, RowsStay, NEW r \in Requests, Handle(r)
  PROVE  Kept(r)'
<1>1. CASE FindByKey(r)
  BY <1>1 DEF FindByKey, Goto, Reply, TypeInv, TypeOK, Loaded, AllKept, Kept, RowsStay,
    RunStatements, KeyedStatements, DraftStatements, TargetStatements, SeenStatements,
    EndStatements
<1>2. CASE GetScenario(r)
  BY <1>2 DEF GetScenario, Goto, Reply, TypeInv, TypeOK, Loaded, AllKept, Kept, RowsStay,
    RunStatements, KeyedStatements, DraftStatements, TargetStatements, SeenStatements,
    EndStatements
<1>3. CASE GetNode(r)
  BY <1>3 DEF GetNode, Goto, Reply, TypeInv, TypeOK, Loaded, AllKept, Kept, RowsStay,
    RunStatements, KeyedStatements, DraftStatements, TargetStatements, SeenStatements,
    EndStatements
<1>4. CASE ListSafeguards(r)
  BY <1>4 DEF ListSafeguards, Goto, Reply, TypeInv, TypeOK, Loaded, AllKept, Kept, RowsStay,
    RunStatements, KeyedStatements, DraftStatements, TargetStatements, SeenStatements,
    EndStatements
<1>5. CASE Create(r)
  BY <1>5 DEF Create, Goto, Reply, Insert, Queued, TypeInv, TypeOK, Loaded, AllKept, Kept,
    RowsStay, RunStatements, KeyedStatements, DraftStatements, TargetStatements,
    SeenStatements, EndStatements
<1>6. CASE FindAgain(r)
  BY <1>6 DEF FindAgain, Goto, Reply, TypeInv, TypeOK, Loaded, AllKept, Kept, RowsStay,
    RunStatements, KeyedStatements, DraftStatements, TargetStatements, SeenStatements,
    EndStatements
<1>7. CASE StartRun(r)
  BY <1>7 DEF StartRun, Goto, Reply, Store, TypeInv, TypeOK, Loaded, AllKept, Kept,
    RowsStay, RunStatements, KeyedStatements, DraftStatements, TargetStatements,
    SeenStatements, EndStatements
<1>8. CASE FailRun(r)
  BY <1>8 DEF FailRun, Goto, Reply, Store, TypeInv, TypeOK, Loaded, AllKept, Kept, RowsStay,
    RunStatements, KeyedStatements, DraftStatements, TargetStatements, SeenStatements,
    EndStatements
<1>9. CASE CompleteRun(r)
  BY <1>9 DEF CompleteRun, Goto, Reply, Store, TypeInv, TypeOK, Loaded, AllKept, Kept,
    RowsStay, RunStatements, KeyedStatements, DraftStatements, TargetStatements,
    SeenStatements, EndStatements
<1>10. CASE GetEvaluation(r)
  BY <1>10, CallFields DEF GetEvaluation, Goto, Reply, AfterGetEvaluation, TargetCalls,
    TypeInv, TypeOK, Loaded, AllKept, Kept, RowsStay, RunStatements, KeyedStatements,
    DraftStatements, TargetStatements, SeenStatements, EndStatements
<1>11. CASE GetAuthor(r)
  BY <1>11 DEF GetAuthor, Goto, Reply, TypeInv, TypeOK, Loaded, AllKept, Kept, RowsStay,
    RunStatements, KeyedStatements, DraftStatements, TargetStatements, SeenStatements,
    EndStatements
<1>12. CASE Confirm(r)
  BY <1>12 DEF Confirm, Goto, Reply, Store, TypeInv, TypeOK, Loaded, AllKept, Kept,
    RowsStay, RunStatements, KeyedStatements, DraftStatements, TargetStatements,
    SeenStatements, EndStatements
<1>13. CASE Void(r)
  BY <1>13 DEF Void, Goto, Reply, Store, TypeInv, TypeOK, Loaded, AllKept, Kept, RowsStay,
    RunStatements, KeyedStatements, DraftStatements, TargetStatements, SeenStatements,
    EndStatements
<1>14. CASE StoreReplay(r)
  BY <1>14 DEF StoreReplay, Goto, Reply, Store, TypeInv, TypeOK, Loaded, AllKept, Kept,
    RowsStay, RunStatements, KeyedStatements, DraftStatements, TargetStatements,
    SeenStatements, EndStatements
<1>15. CASE Reload(r)
  BY <1>15 DEF Reload, Goto, Reply, TypeInv, TypeOK, Loaded, AllKept, Kept, RowsStay,
    RunStatements, KeyedStatements, DraftStatements, TargetStatements, SeenStatements,
    EndStatements
<1>16. CASE RecordAudit(r)
  BY <1>16, CallFields DEF RecordAudit, Goto, Reply, TypeInv, TypeOK, Loaded, AllKept, Kept,
    RowsStay, RunStatements, KeyedStatements, DraftStatements, TargetStatements,
    SeenStatements, EndStatements
<1>17. CASE AnswerReplay(r)
  BY <1>17 DEF AnswerReplay, Goto, Reply, TypeInv, TypeOK, Loaded, AllKept, Kept, RowsStay,
    RunStatements, KeyedStatements, DraftStatements, TargetStatements, SeenStatements,
    EndStatements
<1> QED BY <1>1, <1>2, <1>3, <1>4, <1>5, <1>6, <1>7, <1>8, <1>9, <1>10, <1>11, <1>12, <1>13,
  <1>14, <1>15, <1>16, <1>17 DEF Handle

LEMMA KeptStep ==
  ASSUME TypeInv, AllKept, [Next]_vars
  PROVE  AllKept'
<1>0. RowsStay
  BY RowsStayStep
<1>1. ASSUME NEW r \in Requests, Handle(r)
      PROVE  AllKept'
  <2>1. DOMAIN evaluations' \subseteq DOMAIN evaluations \cup {r}
    <3>1. CASE Writes(r)
      BY <3>1, WriteSteps DEF Insertion, Update
    <3>2. CASE UNCHANGED evaluations
      BY <3>2
    <3> QED
      BY <1>1, <3>1, <3>2 DEF Handle, Writes, FindByKey, GetScenario, GetNode,
        ListSafeguards, FindAgain, GetEvaluation, GetAuthor, Reload, RecordAudit, AnswerReplay
  <2>2. ASSUME NEW q \in Requests, q # r
        PROVE  /\ pc'[q] = pc[q] /\ call'[q] = call[q] /\ draft'[q] = draft[q]
               /\ seen'[q] = seen[q] /\ answer'[q] = answer[q]
    BY <1>1, <2>2 DEF TypeInv, TypeOK, Handle, Goto, Reply, FindByKey, GetScenario, GetNode,
      ListSafeguards, Create, FindAgain, StartRun, FailRun, CompleteRun, GetEvaluation,
      GetAuthor, Confirm, Void, StoreReplay, Reload, RecordAudit, AnswerReplay
  <2>3. ASSUME NEW q \in Requests, q # r
        PROVE  Kept(q)'
    BY <1>0, <2>1, <2>2, <2>3, KeptFrame
  <2> QED BY <1>0, <1>1, <2>3, KeptHandle DEF AllKept
<1>2. ASSUME NEW r \in Requests, Receive(r)
      PROVE  AllKept'
  <2>1. Kept(r)'
    BY <1>2 DEF Receive, Goto, Reply, PermissionFor, TypeInv, TypeOK, AllKept, Kept,
      TargetStatements
  <2>2. ASSUME NEW q \in Requests, q # r
        PROVE  Kept(q)'
    BY <1>0, <1>2, <2>2, KeptFrame DEF Receive, Goto, Reply, TypeInv, TypeOK
  <2> QED BY <2>1, <2>2 DEF AllKept
<1>3. ASSUME NEW r \in Requests, StatementFails(r)
      PROVE  AllKept'
  <2>1. Kept(r)'
    BY <1>3 DEF StatementFails, Reply, Statements, TypeInv, TypeOK, AllKept, Kept,
      TargetStatements
  <2>2. ASSUME NEW q \in Requests, q # r
        PROVE  Kept(q)'
    BY <1>0, <1>3, <2>2, KeptFrame DEF StatementFails, Reply, TypeInv, TypeOK
  <2> QED BY <2>1, <2>2 DEF AllKept
<1>4. CASE Crash
  <2>1. ASSUME NEW q \in Requests
        PROVE  Kept(q)'
    BY <1>4, <2>1 DEF Crash, Statements, TypeInv, TypeOK, AllKept, Kept, TargetStatements
  <2> QED BY <2>1 DEF AllKept
<1>5. ASSUME NEW s \in Scenarios, NEW p \in Parts, EditInput(s, p)
      PROVE  AllKept'
  BY <1>0, <1>5, KeptFrame DEF EditInput, AllKept
<1>6. CASE UNCHANGED vars
  BY <1>0, <1>6, KeptFrame DEF vars, AllKept
<1> QED BY <1>1, <1>2, <1>3, <1>4, <1>5, <1>6 DEF Next, Quiescent

LEMMA ReviewersConfirm ==
  ASSUME NEW u \in Users, HasPermission(RoleOf[u], "evaluation:confirm")
  PROVE  RoleOf[u] \in {"admin", "safety_reviewer"}
<1>1. RoleOf[u] \in Roles
  BY ConstantsAssumption
<1> QED BY <1>1 DEF HasPermission, RolePermissions, Roles, Permissions

\* The inductive invariant: the types, the agreement of locals and rows, and the
\* three properties of the rows and answers.
IInv == /\ TypeInv
        /\ AllKept
        /\ KeyNamesOneEvaluation
        /\ ResultFollowsSnapshot
        /\ IndependentConfirmation

LEMMA InitIInv == Init => IInv
<1> SUFFICES ASSUME Init PROVE IInv
  OBVIOUS
<1>1. TypeInv
  BY InitTypeInv
<1> QED
  BY <1>1 DEF Init, IInv, AllKept, Kept, KeyNamesOneEvaluation, RunAnswered,
    ResultFollowsSnapshot, IndependentConfirmation, TargetStatements

\* Answers that name an evaluation are given on the key of the request.
LEMMA AnsweredKey ==
  ASSUME TypeInv, AllKept, [Next]_vars, NEW q \in Requests, RunAnswered(q)',
         ~(RunAnswered(q) /\ answer'[q] = answer[q] /\ call'[q] = call[q])
  PROVE  /\ call'[q] = call[q]
         /\ answer'[q].evaluation \in FindByIdempotencyKey(call[q].key)
<1>1. ASSUME NEW r \in Requests, Handle(r)
      PROVE  /\ call' = call
             /\ answer'[q].evaluation \in FindByIdempotencyKey(call[q].key)
  <2>1. call' = call
    BY <1>1 DEF Handle, FindByKey, GetScenario, GetNode, ListSafeguards, Create, FindAgain,
      StartRun, FailRun, CompleteRun, GetEvaluation, GetAuthor, Confirm, Void, StoreReplay,
      Reload, RecordAudit, AnswerReplay
  <2>2. answer'[q] # answer[q]
    BY <2>1 DEF RunAnswered
  <2>3. q = r /\ answer'[q].status \in {"ok", "duplicate"} /\ call[q].kind = "run"
    BY <1>1, <2>1, <2>2 DEF RunAnswered, TypeInv, TypeOK, Handle, Goto, Reply, FindByKey,
      GetScenario, GetNode, ListSafeguards, Create, FindAgain, StartRun, FailRun,
      CompleteRun, GetEvaluation, GetAuthor, Confirm, Void, StoreReplay, Reload,
      RecordAudit, AnswerReplay
  <2>4. FindByKey(r) \/ FindAgain(r) \/ RecordAudit(r)
    BY <1>1, <2>2, <2>3 DEF TypeInv, TypeOK, Loaded, TargetStatements, Handle, Goto, Reply,
      GetScenario, GetNode, ListSafeguards, Create, StartRun, FailRun, CompleteRun,
      GetEvaluation, GetAuthor, Confirm, Void, StoreReplay, Reload, AnswerReplay
  <2>5. CASE FindByKey(r) \/ FindAgain(r)
    BY <2>2, <2>3, <2>5 DEF FindByKey, FindAgain, Goto, Reply, TypeInv, TypeOK
  <2>6. CASE RecordAudit(r)
    <3>1. q \in DOMAIN evaluations /\ evaluations[q].key = call[q].key
      BY <2>3, <2>6 DEF RecordAudit, TypeInv, Loaded, EndStatements, AllKept, Kept
    <3> QED
      BY <2>2, <2>3, <2>6, <3>1 DEF RecordAudit, Subject, Reply, FindByIdempotencyKey,
        TypeInv, TypeOK
  <2> QED BY <2>1, <2>4, <2>5, <2>6
<1>2. ASSUME NEW r \in Requests, Receive(r) \/ StatementFails(r)
      PROVE  FALSE
  BY <1>2 DEF Receive, StatementFails, Goto, Reply, RunAnswered, TypeInv, TypeOK, AllKept, Kept
<1>3. ~Crash
  BY DEF Crash, RunAnswered, TypeInv, TypeOK
<1>4. ASSUME NEW s \in Scenarios, NEW p \in Parts, EditInput(s, p)
      PROVE  FALSE
  BY <1>4 DEF EditInput, RunAnswered
<1>5. ~UNCHANGED vars
  BY DEF vars, RunAnswered
<1> QED BY <1>1, <1>2, <1>3, <1>4, <1>5 DEF Next, Quiescent

LEMMA KeyStep ==
  ASSUME IInv, [Next]_vars
  PROVE  KeyNamesOneEvaluation'
<1>0. RowsStay
  BY RowsStayStep DEF IInv
<1>1. \A i, j \in DOMAIN evaluations' : evaluations'[i].key = evaluations'[j].key => i = j
  <2>1. CASE DOMAIN evaluations' = DOMAIN evaluations
    BY <1>0, <2>1 DEF RowsStay, IInv, KeyNamesOneEvaluation
  <2>2. ASSUME NEW r \in Requests, Insertion(r)
        PROVE  \A i, j \in DOMAIN evaluations' : evaluations'[i].key = evaluations'[j].key => i = j
    <3>1. evaluations'[r].key = call[r].key
      BY <2>2 DEF Insertion, Queued
    <3>2. \A id \in DOMAIN evaluations : evaluations'[id].key # call[r].key
      BY <2>2 DEF Insertion, FindByIdempotencyKey
    <3> QED
      BY <1>0, <2>2, <3>1, <3>2 DEF Insertion, RowsStay, IInv, KeyNamesOneEvaluation
  <2> QED BY <2>1, <2>2, TableSteps DEF IInv, Update
<1>2. ASSUME NEW q \in Requests, RunAnswered(q)'
      PROVE  /\ answer'[q].evaluation \in DOMAIN evaluations'
             /\ evaluations'[answer'[q].evaluation].key = call'[q].key
  <2>1. CASE RunAnswered(q) /\ answer'[q] = answer[q] /\ call'[q] = call[q]
    BY <1>0, <2>1 DEF RowsStay, IInv, KeyNamesOneEvaluation
  <2>2. CASE ~(RunAnswered(q) /\ answer'[q] = answer[q] /\ call'[q] = call[q])
    BY <1>0, <1>2, <2>2, AnsweredKey DEF RowsStay, IInv, FindByIdempotencyKey
  <2> QED BY <2>1, <2>2
<1> QED BY <1>1, <1>2 DEF KeyNamesOneEvaluation

LEMMA RowProperties ==
  ASSUME IInv, [Next]_vars
  PROVE  ResultFollowsSnapshot' /\ IndependentConfirmation'
<1>1. ASSUME NEW id \in Requests, Update(id)
      PROVE  /\ HasResult(evaluations'[id]) =>
                  /\ evaluations'[id].snapshot \notin Unevaluable
                  /\ evaluations'[id].score = Score[evaluations'[id].snapshot]
             /\ evaluations'[id].confirmedBy # None =>
                  /\ evaluations'[id].state \in {"confirmed", "voided"}
                  /\ evaluations'[id].confirmedBy # Author[evaluations'[id].snapshot.scenario]
                  /\ RoleOf[evaluations'[id].confirmedBy] \in {"admin", "safety_reviewer"}
  <2> DEFINE old == evaluations[id]
             new == evaluations'[id]
  <2>1. old \in Rows /\ RowStep(old, new) /\ id \in DOMAIN evaluations
    BY <1>1 DEF Update, IInv, TypeInv, TypeOK
  <2>2. HasResult(old) => old.snapshot \notin Unevaluable /\ old.score = Score[old.snapshot]
    BY <2>1 DEF IInv, ResultFollowsSnapshot
  <2>3. old.confirmedBy # None => /\ old.state \in {"confirmed", "voided"}
                                  /\ old.confirmedBy # Author[old.snapshot.scenario]
                                  /\ RoleOf[old.confirmedBy] \in {"admin", "safety_reviewer"}
    BY <2>1 DEF IInv, IndependentConfirmation
  <2> HIDE DEF old, new
  <2>4. HasResult(new) => new.snapshot \notin Unevaluable /\ new.score = Score[new.snapshot]
    BY <2>1, <2>2 DEF RowStep, HasResult, Rows
  <2>5. new.confirmedBy # None => /\ new.state \in {"confirmed", "voided"}
                                  /\ new.confirmedBy # Author[new.snapshot.scenario]
                                  /\ RoleOf[new.confirmedBy] \in {"admin", "safety_reviewer"}
    BY <2>1, <2>3, ReviewersConfirm DEF RowStep, MayConfirm, Rows
  <2> QED BY <2>4, <2>5 DEF old, new
<1>2. ASSUME NEW id \in Requests, Update(id)
      PROVE  ResultFollowsSnapshot' /\ IndependentConfirmation'
  BY <1>1, <1>2 DEF Update, IInv, ResultFollowsSnapshot, IndependentConfirmation
<1>3. ASSUME NEW r \in Requests, Insertion(r)
      PROVE  ResultFollowsSnapshot' /\ IndependentConfirmation'
  <2>1. ~HasResult(evaluations'[r]) /\ evaluations'[r].confirmedBy = None
    BY <1>3 DEF Insertion, Queued, HasResult
  <2> QED
    BY <1>3, <2>1 DEF Insertion, IInv, ResultFollowsSnapshot, IndependentConfirmation
<1>4. CASE UNCHANGED evaluations
  BY <1>4 DEF IInv, ResultFollowsSnapshot, IndependentConfirmation, HasResult
<1> QED BY <1>2, <1>3, <1>4, TableSteps DEF IInv

LEMMA NextIInv == IInv /\ [Next]_vars => IInv'
BY NextType, KeptStep, KeyStep, RowProperties DEF IInv

THEOREM Inductive == Spec => []IInv
BY InitIInv, NextIInv, PTL DEF Spec

\* An idempotency key names one evaluation for good, for any number of concurrent and
\* retried requests and any faults.
THEOREM OneEvaluationPerKey == Spec => []KeyNamesOneEvaluation
<1>1. IInv => KeyNamesOneEvaluation
  BY DEF IInv
<1> QED BY <1>1, Inductive, PTL

\* A result is the score of the snapshot it is stored with.
THEOREM ResultsAreOfSnapshots == Spec => []ResultFollowsSnapshot
<1>1. IInv => ResultFollowsSnapshot
  BY DEF IInv
<1> QED BY <1>1, Inductive, PTL

\* Confirmers are reviewers or administrators, and never the author of the scenario.
THEOREM ConfirmersAreIndependent == Spec => []IndependentConfirmation
<1>1. IInv => IndependentConfirmation
  BY DEF IInv
<1> QED BY <1>1, Inductive, PTL

-----------------------------------------------------------------------------
(* What requests leave behind: decisions, audit entries, replays.          *)

\* The states in which nobody can confirm any more, and those a run leaves.
DecidedStates == {"confirmed", "voided"}
ResultStates == {"completed"} \cup DecidedStates

\* The log has the entry of request r on evaluation id.
Audited(r, id) ==
  \E a \in audits : /\ a.request = r /\ a.actor = call[r].actor
                    /\ a.action = call[r].kind /\ a.evaluation = id

\* Request r has confirmed or voided its target, and was not cut short since.
HasDecided(r) ==
  /\ call[r].kind \in {"confirm", "void"}
  /\ pc[r] \in EndStatements \/ answer[r].status = "ok"

\* What the decision of request r has made of its target.
DecisionStands(r) ==
  /\ call[r].target \in DOMAIN evaluations
  /\ LET row == evaluations[call[r].target] IN
     /\ call[r].kind = "confirm" =>
          row.state \in DecidedStates /\ row.confirmedBy = call[r].actor
     /\ call[r].kind = "void" => row.state = "voided"

\* What a replay has read: if there was a result, it was that of the snapshot.
ReadsTrueResult(r) == HasResult(seen[r]) => seen[r].score = Score[seen[r].snapshot]

\* What a request has done by the time of its statement or its answer.
Effect(r) ==
  /\ pc[r] # "done" => answer[r].status = "pending"
  /\ pc[r] = "void" => call[r].kind = "void"
  /\ HasDecided(r) => DecisionStands(r)
  /\ pc[r] \in EndStatements /\ call[r].kind = "run" => evaluations[r].state \in ResultStates
  /\ pc[r] \in {"storeReplay"} \cup EndStatements /\ call[r].kind = "replay" => ReadsTrueResult(r)
  /\ pc[r] = "answerReplay" => Audited(r, call[r].target)
  /\ answer[r].status = "ok" => Audited(r, answer[r].evaluation)
  /\ answer[r].status = "mismatch" => ~HasResult(seen[r])

\* An entry of the log names a row on which what it says has lasting effect.
EntryStands(a) ==
  /\ a.evaluation \in DOMAIN evaluations
  /\ LET row == evaluations[a.evaluation] IN
     /\ a.action = "run" => row.state \in ResultStates
     /\ a.action = "confirm" => row.state \in DecidedStates /\ row.confirmedBy = a.actor
     /\ a.action = "void" => row.state = "voided"

Effects == /\ \A r \in Requests : Effect(r)
           /\ \A a \in audits : EntryStands(a)
           /\ \A r, q \in Requests :
                HasDecided(r) /\ HasDecided(q) /\ call[r].kind = call[q].kind
                  /\ call[r].target = call[q].target => r = q

\* A row that has a result keeps one, a confirmed one its confirmer, and a voided one
\* stays voided.
Advances(old, new) ==
  /\ old.state \in ResultStates => new.state \in ResultStates
  /\ old.state \in DecidedStates =>
       new.state \in DecidedStates /\ new.confirmedBy = old.confirmedBy
  /\ old.state = "voided" => new.state = "voided"

RowsAdvance ==
  \A id \in DOMAIN evaluations :
    id \in DOMAIN evaluations' /\ Advances(evaluations[id], evaluations'[id])

\* No step takes a row back.
LEMMA RowsAdvanceStep ==
  ASSUME TypeInv, AllKept, [Next]_vars
  PROVE  RowsAdvance
<1> SUFFICES ASSUME NEW id \in DOMAIN evaluations
             PROVE  id \in DOMAIN evaluations' /\ Advances(evaluations[id], evaluations'[id])
  BY DEF RowsAdvance
<1>1. id \in DOMAIN evaluations' /\ evaluations[id] \in Rows
  BY RowsStayStep DEF RowsStay, TypeInv, TypeOK
<1>2. evaluations'[id] = evaluations[id] \/ RowStep(evaluations[id], evaluations'[id])
  BY TableSteps DEF Insertion, Update
<1>3. CASE evaluations'[id] = evaluations[id]
  BY <1>1, <1>3 DEF Advances
<1>4. CASE RowStep(evaluations[id], evaluations'[id])
  BY <1>1, <1>4 DEF Advances, RowStep, Rows, ResultStates, DecidedStates
<1> QED BY <1>1, <1>2, <1>3, <1>4

\* What a request has done stands while it rests.
LEMMA EffectFrame ==
  ASSUME TypeInv, RowsAdvance, NEW q \in Requests, Effect(q), audits \subseteq audits',
         pc'[q] = pc[q], call'[q] = call[q], seen'[q] = seen[q], answer'[q] = answer[q]
  PROVE  Effect(q)'
<1>1. HasDecided(q)' => DecisionStands(q)'
  BY DEF Effect, HasDecided, DecisionStands, RowsAdvance, Advances
<1>2. pc'[q] \in EndStatements /\ call'[q].kind = "run" => evaluations'[q].state \in ResultStates
  BY DEF Effect, TypeInv, Loaded, RowsAdvance, Advances
<1>3. \A id : Audited(q, id) => Audited(q, id)'
  BY DEF Audited
<1> QED BY <1>1, <1>2, <1>3 DEF Effect, ReadsTrueResult, HasResult

\* Each statement does what its handler takes it to have done.
LEMMA EffectHandle ==
  ASSUME IInv, Effects, RowsAdvance, NEW r \in Requests, Handle(r)
  PROVE  Effect(r)'
<1> USE DEF IInv, Effects
<1>1. CASE FindByKey(r)
  BY <1>1 DEF FindByKey, Goto, Reply, TypeInv, TypeOK, Effect, HasDecided, EndStatements
<1>2. CASE GetScenario(r)
  BY <1>2 DEF GetScenario, Goto, Reply, TypeInv, TypeOK, Effect, HasDecided, EndStatements
<1>3. CASE GetNode(r)
  BY <1>3 DEF GetNode, Goto, Reply, TypeInv, TypeOK, Effect, HasDecided, EndStatements
<1>4. CASE ListSafeguards(r)
  BY <1>4 DEF ListSafeguards, Goto, Reply, TypeInv, TypeOK, Effect, HasDecided, EndStatements
<1>5. CASE Create(r)
  BY <1>5 DEF Create, Goto, Reply, TypeInv, TypeOK, Effect, HasDecided, EndStatements
<1>6. CASE FindAgain(r)
  BY <1>6 DEF FindAgain, Goto, Reply, TypeInv, TypeOK, Effect, HasDecided, EndStatements
<1>7. CASE StartRun(r)
  BY <1>7 DEF StartRun, Goto, Reply, TypeInv, TypeOK, Effect, HasDecided, EndStatements
<1>8. CASE FailRun(r)
  BY <1>8 DEF FailRun, Goto, Reply, TypeInv, TypeOK, Effect, HasDecided, EndStatements
<1>9. CASE CompleteRun(r)
  <2>1. /\ call[r].kind = "run" /\ r \in DOMAIN evaluations /\ call' = call /\ seen' = seen
        /\ answer[r].status = "pending" /\ evaluations[r] \in Rows
    BY <1>9 DEF CompleteRun, TypeInv, TypeOK, Loaded, RunStatements, Effect
  <2>2. \/ /\ pc'[r] = "reload" /\ answer' = answer /\ evaluations'[r].state = "completed"
        \/ pc'[r] = "done" /\ answer'[r].status = "conflict"
    <3> DEFINE old == evaluations[r]
               new == [old EXCEPT !.state = "completed", !.snapshot = draft[r],
                                  !.score = Score[draft[r]]]
    <3>1. new.state = "completed"
      BY <2>1 DEF Rows
    <3> HIDE DEF new
    <3>2. (Store(r, new) /\ Goto(r, "reload")) \/ Reply(r, "conflict", None)
      BY <1>9 DEF CompleteRun, new
    <3> QED BY <2>1, <3>1, <3>2 DEF Goto, Reply, Store, TypeInv, TypeOK
  <2> QED BY <2>1, <2>2 DEF Effect, HasDecided, ResultStates, EndStatements
<1>10. CASE GetEvaluation(r)
  <2>1. /\ call[r] \in TargetCalls /\ call[r].kind \in {"confirm", "void", "replay"}
        /\ call' = call /\ answer[r].status = "pending" /\ UNCHANGED evaluations
    BY <1>10, CallFields DEF GetEvaluation, TypeInv, Loaded, TargetStatements, TargetCalls,
      Effect
  <2>2. \/ pc'[r] = "done" /\ answer'[r].status \in {"notFound", "unprocessable"}
        \/ /\ pc'[r] = AfterGetEvaluation(call[r].kind) /\ answer' = answer
           /\ call[r].target \in DOMAIN evaluations /\ seen'[r] = evaluations[call[r].target]
    BY <1>10, <2>1 DEF GetEvaluation, Goto, Reply, TypeInv, TypeOK
  <2>3. CASE pc'[r] = "done" /\ answer'[r].status \in {"notFound", "unprocessable"}
    BY <2>3 DEF Effect, HasDecided, EndStatements
  <2>4. CASE /\ pc'[r] = AfterGetEvaluation(call[r].kind) /\ answer' = answer
             /\ call[r].target \in DOMAIN evaluations /\ seen'[r] = evaluations[call[r].target]
    <3>1. ReadsTrueResult(r)'
      BY <2>1, <2>4 DEF ReadsTrueResult, ResultFollowsSnapshot, HasResult
    <3>2. pc'[r] = "void" => call'[r].kind = "void"
      BY <2>1, <2>4 DEF AfterGetEvaluation
    <3>3. pc'[r] \in {"getAuthor", "void", "storeReplay"}
      BY <2>1, <2>4 DEF AfterGetEvaluation
    <3> QED BY <2>1, <2>4, <3>1, <3>2, <3>3 DEF Effect, HasDecided, EndStatements
  <2> QED BY <2>2, <2>3, <2>4
<1>11. CASE GetAuthor(r)
  BY <1>11 DEF GetAuthor, Goto, Reply, TypeInv, TypeOK, Effect, HasDecided, EndStatements
<1>12. CASE Confirm(r)
  <2>1. /\ call[r].kind = "confirm" /\ call[r].target \in DOMAIN evaluations /\ call' = call
        /\ seen' = seen /\ answer[r].status = "pending" /\ evaluations[call[r].target] \in Rows
    BY <1>12 DEF Confirm, TypeInv, TypeOK, Loaded, Kept, AllKept, TargetStatements,
      SeenStatements, Effect
  <2>2. \/ /\ pc'[r] = "reload" /\ answer' = answer
           /\ DOMAIN evaluations' = DOMAIN evaluations
           /\ evaluations'[call[r].target].state = "confirmed"
           /\ evaluations'[call[r].target].confirmedBy = call[r].actor
        \/ pc'[r] = "done" /\ answer'[r].status = "conflict"
    <3> DEFINE old == evaluations[call[r].target]
               new == [old EXCEPT !.state = "confirmed", !.confirmedBy = call[r].actor]
    <3>1. new.state = "confirmed" /\ new.confirmedBy = call[r].actor
      BY <2>1 DEF Rows
    <3> HIDE DEF new
    <3>2. \/ Store(call[r].target, new) /\ Goto(r, "reload")
          \/ Reply(r, "conflict", None)
      BY <1>12 DEF Confirm, new
    <3> QED BY <2>1, <3>1, <3>2 DEF Goto, Reply, Store, TypeInv, TypeOK
  <2>3. CASE pc'[r] = "done" /\ answer'[r].status = "conflict"
    BY <2>3 DEF Effect, HasDecided, EndStatements
  <2>4. CASE pc'[r] = "reload"
    <3>1. DecisionStands(r)'
      BY <2>1, <2>2, <2>4 DEF DecisionStands, DecidedStates
    <3> QED BY <2>1, <2>2, <2>4, <3>1 DEF Effect
  <2> QED BY <2>2, <2>3, <2>4
<1>13. CASE Void(r)
  <2>1. /\ call[r].kind = "void" /\ call[r].target \in DOMAIN evaluations /\ call' = call
        /\ seen' = seen /\ answer[r].status = "pending" /\ evaluations[call[r].target] \in Rows
    BY <1>13 DEF Void, TypeInv, TypeOK, Loaded, Kept, AllKept, TargetStatements,
      SeenStatements, Effect
  <2>2. \/ /\ pc'[r] = "reload" /\ answer' = answer
           /\ DOMAIN evaluations' = DOMAIN evaluations
           /\ evaluations'[call[r].target].state = "voided"
        \/ pc'[r] = "done" /\ answer'[r].status = "conflict"
    BY <1>13, <2>1 DEF Void, Goto, Reply, Store, Rows, TypeInv, TypeOK
  <2>3. CASE pc'[r] = "done" /\ answer'[r].status = "conflict"
    BY <2>3 DEF Effect, HasDecided, EndStatements
  <2>4. CASE pc'[r] = "reload"
    <3>1. DecisionStands(r)'
      BY <2>1, <2>2, <2>4 DEF DecisionStands, DecidedStates
    <3> QED BY <2>1, <2>2, <2>4, <3>1 DEF Effect
  <2> QED BY <2>2, <2>3, <2>4
<1>14. CASE StoreReplay(r)
  BY <1>14 DEF StoreReplay, Goto, TypeInv, TypeOK, Loaded, Effect, HasDecided, ReadsTrueResult,
    HasResult, EndStatements
<1>15. CASE Reload(r)
  <2>1. /\ pc[r] = "reload" /\ pc'[r] = "audit" /\ call' = call /\ seen' = seen
        /\ answer' = answer /\ evaluations' = evaluations /\ answer[r].status = "pending"
    BY <1>15 DEF Reload, Goto, TypeInv, TypeOK, Effect
  <2>2. HasDecided(r)' => DecisionStands(r)'
    BY <2>1 DEF Effect, HasDecided, DecisionStands, EndStatements
  <2> QED BY <2>1, <2>2 DEF Effect, EndStatements, ReadsTrueResult, HasResult
<1>16. CASE RecordAudit(r)
  <2>1. /\ pc[r] = "audit" /\ call[r] \in Calls /\ call' = call /\ seen' = seen
        /\ evaluations' = evaluations /\ answer[r].status = "pending"
        /\ audits' = audits \cup {AuditEntry(r)}
    BY <1>16 DEF RecordAudit, TypeInv, Loaded, Effect
  <2>2. Audited(r, Subject(r))'
    <3>1. AuditEntry(r) \in audits' /\ Subject(r)' = Subject(r)
      BY <2>1 DEF Subject
    <3>2. /\ AuditEntry(r).request = r /\ AuditEntry(r).actor = call[r].actor
          /\ AuditEntry(r).action = call[r].kind /\ AuditEntry(r).evaluation = Subject(r)
      BY DEF AuditEntry
    <3> QED BY <2>1, <3>1, <3>2 DEF Audited
  <2>3. \/ /\ call[r].kind # "replay" /\ pc'[r] = "done"
           /\ answer'[r].status = "ok" /\ answer'[r].evaluation = Subject(r)
        \/ call[r].kind = "replay" /\ pc'[r] = "answerReplay" /\ answer' = answer
        \/ /\ call[r].kind = "replay" /\ ~ReplayPasses(r)
           /\ pc'[r] = "done" /\ answer'[r].status = "mismatch"
    BY <1>16, <2>1 DEF RecordAudit, Goto, Reply, TypeInv, TypeOK
  <2>4. Subject(r)' = Subject(r)
    BY <2>1 DEF Subject
  <2>5. CASE call[r].kind # "replay" /\ pc'[r] = "done" /\ answer'[r].status = "ok"
               /\ answer'[r].evaluation = Subject(r)
    <3>1. HasDecided(r)' => DecisionStands(r)'
      BY <2>1 DEF Effect, HasDecided, DecisionStands, EndStatements
    <3> QED BY <2>2, <2>4, <2>5, <3>1 DEF Effect, EndStatements
  <2>6. CASE call[r].kind = "replay" /\ pc'[r] = "answerReplay" /\ answer' = answer
    <3>1. Audited(r, call[r].target)'
      BY <2>1, <2>2, <2>4, <2>6 DEF Subject
    <3> QED BY <2>1, <2>6, <3>1 DEF Effect, EndStatements, HasDecided
  <2>7. CASE call[r].kind = "replay" /\ ~ReplayPasses(r)
               /\ pc'[r] = "done" /\ answer'[r].status = "mismatch"
    <3>1. ~HasResult(seen[r])
      BY <2>1, <2>7 DEF Effect, ReadsTrueResult, ReplayPasses, EndStatements
    <3> QED BY <2>1, <2>7, <3>1 DEF Effect, EndStatements, HasDecided, HasResult
  <2> QED BY <2>3, <2>5, <2>6, <2>7
<1>17. CASE AnswerReplay(r)
  BY <1>17 DEF AnswerReplay, Reply, TypeInv, TypeOK, Loaded, Effect, HasDecided, Audited,
    EndStatements
<1> QED BY <1>1, <1>2, <1>3, <1>4, <1>5, <1>6, <1>7, <1>8, <1>9, <1>10, <1>11, <1>12, <1>13,
  <1>14, <1>15, <1>16, <1>17 DEF Handle

\* The steps of the handlers, seen from the other requests and from the log.
LEMMA HandleFrame ==
  ASSUME TypeInv, NEW r \in Requests, Handle(r)
  PROVE  /\ call' = call
         /\ \A q \in Requests : q # r =>
              pc'[q] = pc[q] /\ seen'[q] = seen[q] /\ answer'[q] = answer[q]
         /\ audits' = audits \/ RecordAudit(r)
BY DEF TypeInv, TypeOK, Handle, Goto, Reply, FindByKey, GetScenario, GetNode,
  ListSafeguards, Create, FindAgain, StartRun, FailRun, CompleteRun, GetEvaluation,
  GetAuthor, Confirm, Void, StoreReplay, Reload, RecordAudit, AnswerReplay

\* A step that is not of a handler writes no entry; it may end a request, or let one in.
LEMMA OtherSteps ==
  ASSUME TypeInv, AllKept, [Next]_vars, \A r \in Requests : ~Handle(r), NEW q \in Requests
  PROVE  /\ audits' = audits /\ seen' = seen
         /\ \/ pc'[q] = pc[q] /\ call'[q] = call[q] /\ answer'[q] = answer[q]
            \/ pc'[q] = "done" /\ answer'[q].status \in {"forbidden", "internal", "lost"}
            \/ pc'[q] \in {"findByKey", "getEvaluation"} /\ answer'[q].status = "pending"
<1>1. ASSUME NEW r \in Requests, Receive(r)
      PROVE  /\ audits' = audits /\ seen' = seen
             /\ \/ pc'[q] = pc[q] /\ call'[q] = call[q] /\ answer'[q] = answer[q]
                \/ pc'[q] = "done" /\ answer'[q].status = "forbidden"
                \/ pc'[q] \in {"findByKey", "getEvaluation"} /\ answer'[q].status = "pending"
  BY <1>1 DEF Receive, Goto, Reply, TypeInv, TypeOK, AllKept, Kept
<1>2. ASSUME NEW r \in Requests, StatementFails(r)
      PROVE  /\ audits' = audits /\ seen' = seen
             /\ \/ pc'[q] = pc[q] /\ call'[q] = call[q] /\ answer'[q] = answer[q]
                \/ pc'[q] = "done" /\ answer'[q].status = "internal"
  BY <1>2 DEF StatementFails, Reply, TypeInv, TypeOK
<1>3. ASSUME Crash
      PROVE  /\ audits' = audits /\ seen' = seen
             /\ \/ pc'[q] = pc[q] /\ call'[q] = call[q] /\ answer'[q] = answer[q]
                \/ pc'[q] = "done" /\ answer'[q].status = "lost"
  BY <1>3 DEF Crash
<1> QED BY <1>1, <1>2, <1>3 DEF Next, Quiescent, vars, EditInput

\* What requests have done stands in every step.
LEMMA EffectStep ==
  ASSUME IInv, Effects, [Next]_vars
  PROVE  \A q \in Requests : Effect(q)'
<1>0. RowsAdvance /\ TypeInv /\ AllKept /\ \A q \in Requests : Effect(q)
  BY RowsAdvanceStep DEF IInv, Effects
<1>1. ASSUME NEW r \in Requests, Handle(r), NEW q \in Requests
      PROVE  Effect(q)'
  <2>1. CASE q = r
    BY <1>0, <1>1, <2>1, EffectHandle
  <2>2. CASE q # r
    <3>1. audits \subseteq audits'
      BY <1>0, <1>1, HandleFrame DEF RecordAudit
    <3> QED BY <1>0, <1>1, <2>2, <3>1, HandleFrame, EffectFrame
  <2> QED BY <2>1, <2>2
<1>2. ASSUME \A r \in Requests : ~Handle(r), NEW q \in Requests
      PROVE  Effect(q)'
  <2>1. CASE pc'[q] = pc[q] /\ call'[q] = call[q] /\ answer'[q] = answer[q]
    BY <1>0, <1>2, <2>1, OtherSteps, EffectFrame
  <2>2. CASE pc'[q] = "done" /\ answer'[q].status \in {"forbidden", "internal", "lost"}
    BY <2>2 DEF Effect, HasDecided, EndStatements
  <2>3. CASE pc'[q] \in {"findByKey", "getEvaluation"} /\ answer'[q].status = "pending"
    BY <2>3 DEF Effect, HasDecided, EndStatements
  <2> QED BY <1>0, <1>2, <2>1, <2>2, <2>3, OtherSteps
<1> QED BY <1>1, <1>2

\* An entry that is written tells what its request has done, and stays true.
LEMMA EntryStep ==
  ASSUME IInv, Effects, [Next]_vars
  PROVE  \A a \in audits' : EntryStands(a)'
<1>0. RowsAdvance /\ TypeInv /\ AllKept
  BY RowsAdvanceStep DEF IInv
<1>1. ASSUME NEW a \in audits
      PROVE  EntryStands(a)'
  BY <1>0, <1>1 DEF Effects, EntryStands, RowsAdvance, Advances
<1>2. ASSUME NEW r \in Requests, RecordAudit(r), NEW a, a = AuditEntry(r)
      PROVE  EntryStands(a)'
  <2>1. /\ a.actor = call[r].actor /\ a.action = call[r].kind /\ a.evaluation = Subject(r)
    BY <1>2 DEF AuditEntry
  <2>2. /\ pc[r] = "audit" /\ call[r] \in Calls /\ evaluations' = evaluations /\ Effect(r)
        /\ call[r].kind \in {"run", "confirm", "void", "replay"}
    BY <1>0, <1>2, CallFields DEF RecordAudit, TypeInv, Loaded, Effects, RunCalls, TargetCalls
  <2>3. CASE call[r].kind = "run"
    <3>1. Subject(r) = r /\ r \in DOMAIN evaluations /\ evaluations[r].state \in ResultStates
      BY <1>0, <2>2, <2>3 DEF Subject, TypeInv, Loaded, EndStatements, Effect
    <3> QED BY <2>1, <2>2, <2>3, <3>1 DEF EntryStands
  <2>4. CASE call[r].kind \in {"confirm", "void"}
    <3>1. Subject(r) = call[r].target /\ DecisionStands(r)
      BY <2>2, <2>4 DEF Subject, HasDecided, Effect, EndStatements
    <3> QED BY <2>1, <2>2, <2>4, <3>1 DEF EntryStands, DecisionStands
  <2>5. CASE call[r].kind = "replay"
    <3>1. Subject(r) = call[r].target /\ call[r].target \in DOMAIN evaluations
      BY <1>0, <2>2, <2>5 DEF Subject, TypeInv, Loaded, EndStatements
    <3> QED BY <2>1, <2>2, <2>5, <3>1 DEF EntryStands
  <2> QED BY <2>2, <2>3, <2>4, <2>5
<1>3. audits' = audits \/ \E r \in Requests : RecordAudit(r)
  <2>1. CASE \E r \in Requests : Handle(r)
    BY <1>0, <2>1, HandleFrame
  <2>2. CASE \A r \in Requests : ~Handle(r)
    <3>1. CASE Requests = {}
      BY <2>2, <3>1 DEF Next, Quiescent, vars, EditInput, Crash
    <3>2. CASE Requests # {}
      BY <1>0, <2>2, <3>2, OtherSteps
    <3> QED BY <3>1, <3>2
  <2> QED BY <2>1, <2>2
<1>4. CASE audits' = audits
  BY <1>1, <1>4
<1>5. ASSUME NEW r \in Requests, RecordAudit(r)
      PROVE  \A a \in audits' : EntryStands(a)'
  <2>1. audits' = audits \cup {AuditEntry(r)}
    BY <1>5 DEF RecordAudit
  <2> QED BY <1>1, <1>2, <1>5, <2>1
<1> QED BY <1>3, <1>4, <1>5

\* A request decides by a conditional update, which the row then refuses to all others.
LEMMA DecidingStep ==
  ASSUME IInv, Effects, [Next]_vars, NEW r \in Requests, HasDecided(r)', ~HasDecided(r)
  PROVE  /\ call' = call /\ (Confirm(r) \/ Void(r))
         /\ call[r].kind = "confirm" => evaluations[call[r].target].state = "completed"
         /\ call[r].kind = "void" => evaluations[call[r].target].state # "voided"
<1>1. Handle(r)
  <2>1. ASSUME \A p \in Requests : ~Handle(p)
        PROVE  FALSE
    BY <2>1, OtherSteps DEF IInv, HasDecided, EndStatements
  <2>2. PICK p \in Requests : Handle(p)
    BY <2>1
  <2>3. p = r
    BY <2>2, HandleFrame DEF IInv, HasDecided
  <2> QED BY <2>2, <2>3
<1>2. call' = call
  BY <1>1, HandleFrame DEF IInv
<1>3. Confirm(r) \/ Void(r)
  BY <1>1, <1>2 DEF IInv, TypeInv, TypeOK, Loaded, RunStatements, TargetStatements,
    EndStatements, HasDecided, Handle, Goto, Reply, FindByKey, GetScenario, GetNode,
    ListSafeguards, Create, FindAgain, StartRun, FailRun, CompleteRun, GetEvaluation,
    AfterGetEvaluation, GetAuthor, StoreReplay, Reload, RecordAudit, AnswerReplay
<1>4. pc'[r] = "reload"
  BY <1>3 DEF Confirm, Void, Goto, Reply, HasDecided, EndStatements, IInv, TypeInv, TypeOK,
    Effects, Effect
<1>5. CASE Confirm(r)
  BY <1>4, <1>5 DEF Confirm, Goto, Reply, Changed, ConfirmableStates, IInv, TypeInv, TypeOK,
    AllKept, Kept
<1>6. CASE Void(r)
  BY <1>4, <1>6 DEF Void, Goto, Reply, Changed, VoidableStates, IInv, TypeInv, TypeOK,
    Effects, Effect
<1> QED BY <1>2, <1>3, <1>5, <1>6

\* Whoever has decided another way, or earlier, leaves a row that is no longer open.
LEMMA OneDecidesStep ==
  ASSUME IInv, Effects, [Next]_vars, NEW r \in Requests, NEW q \in Requests,
         HasDecided(r)', HasDecided(q)', call'[r].kind = call'[q].kind,
         call'[r].target = call'[q].target
  PROVE  r = q
<1>1. CASE HasDecided(r) /\ HasDecided(q) /\ call'[r] = call[r] /\ call'[q] = call[q]
  BY <1>1 DEF Effects
<1>2. ASSUME NEW x \in Requests, NEW y \in Requests, x # y, ~HasDecided(x), HasDecided(x)',
             HasDecided(y)', call'[x].kind = call'[y].kind, call'[x].target = call'[y].target
      PROVE  FALSE
  <2>1. /\ call' = call /\ Handle(x)
        /\ call[x].kind = "confirm" => evaluations[call[x].target].state = "completed"
        /\ call[x].kind = "void" => evaluations[call[x].target].state # "voided"
    BY <1>2, DecidingStep DEF Handle
  <2>2. HasDecided(y)
    BY <1>2, <2>1, HandleFrame DEF IInv, HasDecided
  <2>3. DecisionStands(y) /\ call[y].kind \in {"confirm", "void"}
    BY <2>2 DEF Effects, Effect, HasDecided
  <2> QED BY <1>2, <2>1, <2>3 DEF DecisionStands, DecidedStates
<1>3. ASSUME NEW x \in Requests, HasDecided(x)', HasDecided(x)
      PROVE  call'[x] = call[x]
  BY <1>3, HandleFrame, OtherSteps DEF IInv, HasDecided, EndStatements
<1> QED BY <1>1, <1>2, <1>3

\* Every step preserves what requests leave behind.
LEMMA NextEffects ==
  ASSUME IInv, Effects, [Next]_vars
  PROVE  Effects'
BY EffectStep, EntryStep, OneDecidesStep DEF Effects

\* What requests leave behind stands in all reachable states.
LEMMA EffectsInductive == Spec => []Effects
<1>1. Init => Effects
  BY DEF Init, Effects, Effect, HasDecided, EndStatements
<1>2. IInv /\ Effects /\ [Next]_vars => Effects'
  BY NextEffects
<1> QED BY <1>1, <1>2, Inductive, PTL DEF Spec

\* Of the requests that race to confirm, or to void, one evaluation, at most one succeeds
\* (the conditional updates of Confirm and Void).
THEOREM OneDecision == Spec => []DecidedOnce
<1>1. Effects => DecidedOnce
  BY DEF Effects, DecidedOnce, Decided, HasDecided, EndStatements
<1> QED BY <1>1, EffectsInductive, PTL

\* Whoever is answered success finds his entry in the log, whatever fails.
THEOREM SuccessesAreAudited == Spec => []SuccessIsAudited
<1>1. Effects => SuccessIsAudited
  BY DEF Effects, Effect, Audited, SuccessIsAudited
<1> QED BY <1>1, EffectsInductive, PTL

\* What the log says of runs, confirmations and voids happened and was not undone.
THEOREM LogIsTrue == Spec => []AuditedChangesHappened
<1>1. Effects => AuditedChangesHappened
  BY DEF Effects, EntryStands, AuditedChangesHappened, ResultStates, DecidedStates
<1> QED BY <1>1, EffectsInductive, PTL

\* A replay that read a result agrees with it, however the inputs were edited since.
THEOREM ReplaysOfResultsPass == Spec => []ReplayOfResultPasses
<1>1. Effects => ReplayOfResultPasses
  BY DEF Effects, Effect, ReplayOfResultPasses
<1> QED BY <1>1, EffectsInductive, PTL

-----------------------------------------------------------------------------
(* History and refinement.                                                 *)

\* Historical versions are never overwritten: rows stay, with their snapshot, and a
\* settled row keeps its result.
THEOREM HistoryIsFrozen == Spec => HistoryFrozen
<1>1. ASSUME IInv, [Next]_vars, NEW id \in DOMAIN evaluations
      PROVE  /\ id \in DOMAIN evaluations'
             /\ evaluations'[id].snapshot = evaluations[id].snapshot
             /\ Settled(evaluations[id]) =>
                  Frozen(evaluations'[id]) = Frozen(evaluations[id])
  <2>1. id \in DOMAIN evaluations' /\ evaluations'[id].snapshot = evaluations[id].snapshot
    BY <1>1, RowsStayStep DEF IInv, RowsStay
  <2>2. evaluations[id] \in Rows
    BY <1>1 DEF IInv, TypeInv, TypeOK
  <2>3. evaluations'[id] = evaluations[id] \/ RowStep(evaluations[id], evaluations'[id])
    BY <1>1, TableSteps DEF IInv, Insertion, Update
  <2>4. Settled(evaluations[id]) => Frozen(evaluations'[id]) = Frozen(evaluations[id])
    BY <2>2, <2>3 DEF RowStep, Settled, Frozen, Rows
  <2> QED BY <2>1, <2>4
<1>2. IInv /\ [Next]_vars =>
        [\A id \in DOMAIN evaluations :
           /\ id \in DOMAIN evaluations'
           /\ evaluations'[id].snapshot = evaluations[id].snapshot
           /\ Settled(evaluations[id]) =>
                Frozen(evaluations'[id]) = Frozen(evaluations[id])]_vars
  BY <1>1
<1> QED BY <1>2, Inductive, PTL DEF Spec, HistoryFrozen

LEMMA LedgerOf ==
  ASSUME IInv, NEW id \in DOMAIN evaluations
  PROVE  /\ evaluations[id].key \in Keys
         /\ FindByIdempotencyKey(evaluations[id].key) = {id}
         /\ Ledger[evaluations[id].key] = {Projection(evaluations[id])}
<1>1. evaluations[id].key \in Keys
  BY DEF IInv, TypeInv, TypeOK, Rows
<1>2. FindByIdempotencyKey(evaluations[id].key) = {id}
  BY DEF IInv, KeyNamesOneEvaluation, FindByIdempotencyKey
<1> QED BY <1>1, <1>2 DEF Ledger

LEMMA LedgerUpdate ==
  ASSUME IInv, IInv', NEW id \in Requests, Update(id), NEW k \in Keys, k = evaluations[id].key
  PROVE  Ledger' = [Ledger EXCEPT ![k] = {Projection(evaluations'[id])}]
<1>1. evaluations'[id].key = k
  BY RowsStayUpdate DEF Update, IInv, RowsStay
<1>2. Ledger'[k] = {Projection(evaluations'[id])}
  <2>1. FindByIdempotencyKey(k)' = {id}
    BY <1>1 DEF Update, IInv, KeyNamesOneEvaluation, FindByIdempotencyKey
  <2> QED BY <2>1 DEF Ledger
<1>3. ASSUME NEW other \in Keys, other # k
      PROVE  Ledger'[other] = Ledger[other]
  <2>1. FindByIdempotencyKey(other)' = FindByIdempotencyKey(other)
    BY <1>1, <1>3 DEF Update, FindByIdempotencyKey
  <2>2. \A i \in FindByIdempotencyKey(other) : evaluations'[i] = evaluations[i]
    BY <1>3 DEF Update, FindByIdempotencyKey
  <2> QED BY <2>1, <2>2 DEF Ledger
<1> QED BY <1>2, <1>3 DEF Ledger

LEMMA LedgerInsertion ==
  ASSUME IInv, NEW r \in Requests, Insertion(r), NEW k \in Keys, k = call[r].key
  PROVE  /\ Ledger[k] = {}
         /\ Ledger' = [Ledger EXCEPT ![k] = {Projection(evaluations'[r])}]
<1>1. Ledger[k] = {}
  BY DEF Insertion, Ledger
<1>2. evaluations'[r].key = k
  BY DEF Insertion, Queued
<1>3. FindByIdempotencyKey(k)' = {r}
  <2>1. \A i \in DOMAIN evaluations : evaluations'[i].key # k
    BY DEF Insertion, FindByIdempotencyKey
  <2> QED BY <1>2, <2>1 DEF Insertion, FindByIdempotencyKey
<1>4. Ledger'[k] = {Projection(evaluations'[r])}
  BY <1>3 DEF Ledger
<1>5. ASSUME NEW other \in Keys, other # k
      PROVE  Ledger'[other] = Ledger[other]
  <2>1. FindByIdempotencyKey(other)' = FindByIdempotencyKey(other)
    BY <1>2, <1>5 DEF Insertion, FindByIdempotencyKey
  <2>2. \A i \in FindByIdempotencyKey(other) : evaluations'[i] = evaluations[i]
    BY DEF Insertion, FindByIdempotencyKey
  <2> QED BY <2>1, <2>2 DEF Ledger
<1> QED BY <1>4, <1>1, <1>5 DEF Ledger

LEMMA LifecycleStep ==
  ASSUME IInv, IInv', [Next]_vars
  PROVE  [Lifecycle!Next]_Ledger
<1>1. CASE UNCHANGED evaluations
  BY <1>1 DEF Ledger, FindByIdempotencyKey
<1>2. ASSUME NEW r \in Requests, Insertion(r)
      PROVE  Lifecycle!Next
  <2>1. call[r].key \in Keys /\ draft[r] \in Snapshots
    BY <1>2 DEF Insertion
  <2>2. Projection(evaluations'[r]) = [snapshot |-> draft[r], state |-> "queued",
                                       score |-> Provisional, confirmedBy |-> None]
    BY <1>2 DEF Insertion, Projection, Queued
  <2>3. Lifecycle!Queue(call[r].key)
    BY <1>2, <2>1, <2>2, LedgerInsertion DEF Lifecycle!Queue
  <2> QED BY <2>1, <2>3 DEF Lifecycle!Next
<1>3. ASSUME NEW id \in Requests, Update(id)
      PROVE  [Lifecycle!Next]_Ledger
  <2>0. PICK k \in Keys : k = evaluations[id].key
    BY <1>3, LedgerOf DEF Update
  <2> DEFINE old == evaluations[id]
             new == evaluations'[id]
             e == Projection(old)
  <2>1. k \in Keys /\ Ledger[k] = {e} /\ old \in Rows /\ RowStep(old, new)
    BY <1>3, <2>0, LedgerOf DEF Update, IInv, TypeInv, TypeOK
  <2>2. Ledger' = [Ledger EXCEPT ![k] = {Projection(new)}]
    BY <1>3, <2>0, LedgerUpdate
  <2>3. /\ e.snapshot = old.snapshot /\ e.state = old.state
        /\ e.score = old.score /\ e.confirmedBy = old.confirmedBy
    BY DEF Projection
  <2>4. /\ Lifecycle!CanTransitionCoverage("queued", "running")
        /\ Lifecycle!CanTransitionCoverage("running", "completed")
        /\ Lifecycle!CanTransitionCoverage("running", "failed")
        /\ Lifecycle!CanTransitionCoverage("completed", "confirmed")
        /\ \A s \in {"completed", "failed", "confirmed"} :
             Lifecycle!CanTransitionCoverage(s, "voided")
    BY DEF Lifecycle!CanTransitionCoverage, Lifecycle!CoverageTransitions
  <2> HIDE DEF old, new, e
  <2>5. CASE old.state = "queued" /\ new = [old EXCEPT !.state = "running"]
    <3>1. Projection(new) = [snapshot |-> e.snapshot, state |-> "running", score |-> e.score,
                             confirmedBy |-> e.confirmedBy]
      BY <2>1, <2>5 DEF Projection, Rows, e
    <3>2. Lifecycle!Move(k, "running", e.score, e.confirmedBy)
      BY <2>1, <2>2, <2>3, <2>4, <2>5, <3>1 DEF Lifecycle!Move
    <3>3. Lifecycle!Start(k)
      BY <2>1, <2>3, <2>5, <3>2 DEF Lifecycle!Start
    <3> QED BY <2>1, <3>3 DEF Lifecycle!Next
  <2>6. CASE /\ old.state = "running" /\ old.snapshot \in Unevaluable
             /\ new = [old EXCEPT !.state = "failed"]
    <3>1. Projection(new) = [snapshot |-> e.snapshot, state |-> "failed", score |-> e.score,
                             confirmedBy |-> e.confirmedBy]
      BY <2>1, <2>6 DEF Projection, Rows, e
    <3>2. Lifecycle!Move(k, "failed", e.score, e.confirmedBy)
      BY <2>1, <2>2, <2>3, <2>4, <2>6, <3>1 DEF Lifecycle!Move
    <3>3. Lifecycle!Fail(k)
      BY <2>1, <2>3, <2>6, <3>2 DEF Lifecycle!Fail
    <3> QED BY <2>1, <3>3 DEF Lifecycle!Next
  <2>7. CASE /\ old.state = "running" /\ old.snapshot \notin Unevaluable
             /\ new = [old EXCEPT !.state = "completed", !.snapshot = old.snapshot,
                                  !.score = Score[old.snapshot]]
    <3>1. Projection(new) = [snapshot |-> e.snapshot, state |-> "completed", score |-> Score[e.snapshot],
                             confirmedBy |-> e.confirmedBy]
      BY <2>1, <2>7 DEF Projection, Rows, e
    <3>2. Lifecycle!Move(k, "completed", Score[e.snapshot], e.confirmedBy)
      BY <2>1, <2>2, <2>3, <2>4, <2>7, <3>1 DEF Lifecycle!Move
    <3>3. Lifecycle!Complete(k)
      BY <2>1, <2>3, <2>7, <3>2 DEF Lifecycle!Complete
    <3> QED BY <2>1, <3>3 DEF Lifecycle!Next
  <2>8. ASSUME old.state = "completed", NEW u \in Users, MayConfirm(u, old),
               new = [old EXCEPT !.state = "confirmed", !.confirmedBy = u]
        PROVE  Lifecycle!Next
    <3>1. Projection(new) = [snapshot |-> e.snapshot, state |-> "confirmed",
                             score |-> e.score, confirmedBy |-> u]
      BY <2>1, <2>8 DEF Projection, Rows, e
    <3>2. Lifecycle!Move(k, "confirmed", e.score, u)
      BY <2>1, <2>2, <2>3, <2>4, <2>8, <3>1 DEF Lifecycle!Move
    <3>3. u # Author[e.snapshot.scenario] /\ HasPermission(RoleOf[u], "evaluation:confirm")
      BY <2>3, <2>8 DEF MayConfirm
    <3>4. Lifecycle!Confirm(k)
      BY <2>1, <3>2, <3>3 DEF Lifecycle!Confirm
    <3> QED BY <2>1, <3>4 DEF Lifecycle!Next
  <2>9. CASE /\ old.state \in {"completed", "failed", "confirmed"}
             /\ new = [old EXCEPT !.state = "voided"]
    <3>1. Projection(new) = [snapshot |-> e.snapshot, state |-> "voided", score |-> e.score,
                             confirmedBy |-> e.confirmedBy]
      BY <2>1, <2>9 DEF Projection, Rows, e
    <3>2. Lifecycle!Move(k, "voided", e.score, e.confirmedBy)
      BY <2>1, <2>2, <2>3, <2>4, <2>9, <3>1 DEF Lifecycle!Move
    <3>3. Lifecycle!Void(k)
      BY <2>1, <2>3, <2>9, <3>2 DEF Lifecycle!Void
    <3> QED BY <2>1, <3>3 DEF Lifecycle!Next
  <2>10. ASSUME NEW mark \in {"passed", "mismatch"}, new = [old EXCEPT !.replay = mark]
         PROVE  UNCHANGED Ledger
    <3>1. Projection(new) = e
      BY <2>1, <2>10 DEF Projection, Rows, e
    <3>2. Ledger \in [Keys -> {Ledger[j] : j \in Keys}]
      BY DEF Ledger
    <3> QED BY <2>1, <2>2, <3>1, <3>2
  <2> QED BY <2>1, <2>5, <2>6, <2>7, <2>8, <2>9, <2>10 DEF RowStep
<1> QED BY <1>1, <1>2, <1>3, TableSteps DEF IInv

\* Seen through its idempotency keys, the service implements EvaluationLifecycle.
THEOREM Refinement == Spec => ImplementsLifecycle
<1>1. Init => Lifecycle!Init
  BY DEF Init, Lifecycle!Init, Ledger, FindByIdempotencyKey
<1> QED
  BY <1>1, LifecycleStep, Inductive, PTL DEF Spec, ImplementsLifecycle, Lifecycle!Spec
=============================================================================
