------------------------- MODULE ScenarioReviewProofs -------------------------
(***************************************************************************)
(* Proofs about ScenarioReview, for any number of requests, users and      *)
(* fields.                                                                 *)
(***************************************************************************)
EXTENDS ScenarioReview, TLAPS

Row(state, version, content, reviewer, time) ==
  [state |-> state, version |-> version, content |-> content, reviewedBy |-> reviewer,
   updatedAt |-> time]

\* A row that a handler computed, with the time the table has for it.
Restored(y) == [y EXCEPT !.updatedAt = Dated(y.updatedAt.request, "table")]

\* The rows everybody holds, as they are or were in the table.
KnownRows ==
  {scenario}
    \cup {view[r] : r \in {q \in Requests : view[q] # None}}
    \cup {local[r] : r \in {q \in Requests : local[q] # None}}
    \cup {Written(r, local[r]) : r \in {q \in Requests : pc[q] = "audit"}}
    \cup {a.before : a \in audits} \cup {Restored(a.after) : a \in audits}

\* What a handler knows at each of its statements.
ReadyAt(r) ==
  /\ pc[r] # "idle" => view[r] \in Rows
  /\ pc[r] \in Statements => call[r] \in Calls
  /\ pc[r] \in {"write", "audit"} => local[r] \in Rows
  /\ pc[r] = "write" => /\ view[r].version <= local[r].version
                        /\ Verdict(call[r], local[r]) = "ok"
  /\ answer[r] # "pending" => pc[r] = "done"

Ready == \A r \in Requests : ReadyAt(r)

\* The table holds the newest of the known rows, and versions tell them apart.
Coherent ==
  /\ \A x \in KnownRows : x.version <= scenario.version
  /\ \A x, y \in KnownRows : x.version = y.version => x = y

Inv == TypeOK /\ Ready /\ Coherent /\ ReviewersAreIndependent /\ ConflictMeansChange

-----------------------------------------------------------------------------
(* Helpers.                                                                *)

\* The fields of a row have the types Rows gives them.
LEMMA RowFields ==
  ASSUME NEW x \in Rows
  PROVE  /\ x.state \in ScenarioStates /\ x.version \in Nat
         /\ x.content \in Contents /\ x.reviewedBy \in Users \cup {None}
         /\ x.updatedAt \in Times
         /\ x = Row(x.state, x.version, x.content, x.reviewedBy, x.updatedAt)
BY DEF Rows, Row

\* Only the time of a row changes when it is restored.
LEMMA RestoredIsRow ==
  ASSUME NEW x \in Rows
  PROVE  /\ Restored(x) \in Rows
         /\ Restored(x).version = x.version
         /\ SameButForTime(Restored(x), x)
<1> DEFINE t == Dated(x.updatedAt.request, "table")
<1>1. x.state \in ScenarioStates /\ x.version \in Nat /\ x.content \in Contents
        /\ x.reviewedBy \in Users \cup {None} /\ x.updatedAt \in Times
  BY RowFields
<1>2. t \in Times /\ t.request = x.updatedAt.request
  BY <1>1 DEF Dated, Times
<1> HIDE DEF t
<1>3. Restored(x) = [x EXCEPT !.updatedAt = t]
  BY DEF Restored, t
<1>4. /\ Restored(x).state = x.state /\ Restored(x).version = x.version
      /\ Restored(x).content = x.content /\ Restored(x).reviewedBy = x.reviewedBy
      /\ Restored(x).updatedAt = t
      /\ Restored(x) \in Rows
  BY <1>1, <1>2, <1>3 DEF Rows
<1> QED BY <1>2, <1>4 DEF SameButForTime

\* What the update statement writes is a row.
LEMMA WrittenIsRow ==
  ASSUME NEW r \in Requests, NEW x \in Rows,
         local[r] \in Rows, view[r] \in Rows, call[r] \in Calls
  PROVE  /\ Written(r, x) \in Rows
         /\ Written(r, x).version = view[r].version + 1
         /\ Written(r, x).state = NextState(r, x)
         /\ Written(r, x).content = IF call[r].kind = "update" THEN Edited(r) ELSE x.content
         /\ Written(r, x).reviewedBy =
              IF ReviewAction(call[r]) THEN call[r].actor ELSE x.reviewedBy
         /\ Written(r, x).updatedAt = Dated(r, "table")
<1>1. x.state \in ScenarioStates /\ x.content \in Contents
        /\ x.reviewedBy \in Users \cup {None}
  BY RowFields
<1>2. view[r].version \in Nat /\ local[r].content \in Contents
  BY RowFields
<1>3. Edited(r) \in Contents
  BY <1>2 DEF Edited, Contents
<1>4. NextState(r, x) \in ScenarioStates
  BY <1>1 DEF NextState, Calls, UpdateCalls, TransitionCalls, ScenarioStates
<1>5. call[r].actor \in Users
  BY DEF Calls, UpdateCalls, TransitionCalls
<1>6. view[r].version + 1 \in Nat
  BY <1>2
<1> DEFINE c == IF call[r].kind = "update" THEN Edited(r) ELSE x.content
           u == IF ReviewAction(call[r]) THEN call[r].actor ELSE x.reviewedBy
<1>7. c \in Contents /\ u \in Users \cup {None}
  BY <1>1, <1>3, <1>5
<1>8. Written(r, x) = [state |-> NextState(r, x), version |-> view[r].version + 1,
                       content |-> c, reviewedBy |-> u, updatedAt |-> Dated(r, "table")]
  BY DEF Written
<1> HIDE DEF c, u
<1>11. Dated(r, "table") \in Times
  BY DEF Dated, Times
<1>9. Written(r, x) \in Rows
  BY <1>4, <1>6, <1>7, <1>8, <1>11 DEF Rows
<1>10. /\ Written(r, x).version = view[r].version + 1
       /\ Written(r, x).state = NextState(r, x)
       /\ Written(r, x).content = c /\ Written(r, x).reviewedBy = u
       /\ Written(r, x).updatedAt = Dated(r, "table")
  BY <1>8
<1> QED BY <1>9, <1>10 DEF c, u

\* The handler's copy is the row written but for its time.
LEMMA CopiedIsWritten ==
  ASSUME NEW r \in Requests, local[r] \in Rows, view[r] \in Rows, call[r] \in Calls
  PROVE  /\ Copied(r) \in Rows
         /\ Copied(r).version = Written(r, local[r]).version
         /\ SameButForTime(Copied(r), Written(r, local[r]))
         /\ Restored(Copied(r)) = Written(r, local[r])
<1> DEFINE w == Written(r, local[r])
<1>1. w \in Rows /\ w.updatedAt = Dated(r, "table")
  BY WrittenIsRow
<1>2. Copied(r) = [w EXCEPT !.updatedAt = Dated(r, "copy")]
  BY DEF Copied
<1> HIDE DEF w
<1>3. w = Row(w.state, w.version, w.content, w.reviewedBy, Dated(r, "table"))
        /\ w.state \in ScenarioStates /\ w.version \in Nat
        /\ w.content \in Contents /\ w.reviewedBy \in Users \cup {None}
  BY <1>1, RowFields
<1>4. Copied(r) = Row(w.state, w.version, w.content, w.reviewedBy, Dated(r, "copy"))
  BY <1>2, <1>3 DEF Row
<1>5. Dated(r, "copy") \in Times /\ Dated(r, "copy").request = r
        /\ Dated(r, "table").request = r
  BY DEF Dated, Times
<1>6. Copied(r) \in Rows
  BY <1>3, <1>4, <1>5 DEF Row, Rows
<1>7. /\ Copied(r).version = w.version /\ Copied(r).state = w.state
      /\ Copied(r).content = w.content /\ Copied(r).reviewedBy = w.reviewedBy
      /\ Copied(r).updatedAt = Dated(r, "copy")
  BY <1>4 DEF Row
<1>8. SameButForTime(Copied(r), w)
  BY <1>1, <1>5, <1>7 DEF SameButForTime
<1>9. Restored(Copied(r)) = w
  BY <1>3, <1>4, <1>5, <1>7 DEF Restored, Row
<1> QED BY <1>6, <1>7, <1>8, <1>9 DEF w

\* Everything that is known is a row.
LEMMA KnownAreRows == TypeOK /\ Ready => KnownRows \subseteq Rows
<1> SUFFICES ASSUME TypeOK, Ready, NEW x \in KnownRows PROVE x \in Rows
  OBVIOUS
<1>1. scenario \in Rows /\ audits \subseteq AuditRows
  BY DEF TypeOK
<1>2. ASSUME NEW r \in Requests, view[r] # None PROVE view[r] \in Rows
  BY <1>2 DEF TypeOK
<1>3. ASSUME NEW r \in Requests, local[r] # None PROVE local[r] \in Rows
  BY <1>3 DEF TypeOK
<1>4. ASSUME NEW r \in Requests, pc[r] = "audit" PROVE Written(r, local[r]) \in Rows
  BY <1>4, WrittenIsRow DEF Ready, ReadyAt, Statements
<1>5. \A a \in audits : a.before \in Rows /\ Restored(a.after) \in Rows
  BY <1>1, RestoredIsRow DEF AuditRows
<1> QED BY <1>1, <1>2, <1>3, <1>4, <1>5 DEF KnownRows

\* Knowledge stays coherent if a step adds nothing but the row it writes, which is the
\* next version.
LEMMA CoherentStep ==
  ASSUME TypeOK, Ready, Coherent, scenario' \in Rows,
         KnownRows' \subseteq KnownRows \cup {scenario'},
         scenario' = scenario \/ scenario'.version = scenario.version + 1
  PROVE  Coherent'
<1>1. KnownRows \subseteq Rows
  BY KnownAreRows
<1>2. scenario \in KnownRows
  BY DEF KnownRows
<1>3. \A x \in KnownRows : x.version \in Nat
  BY <1>1, RowFields
<1>4. scenario'.version \in Nat /\ scenario.version \in Nat
  BY <1>2, <1>3, RowFields
<1>5. \A x \in KnownRows : x.version <= scenario.version
  BY DEF Coherent
<1>6. \A x \in KnownRows' : x.version <= scenario'.version
  BY <1>2, <1>3, <1>4, <1>5
<1>7. ASSUME NEW x \in KnownRows, x.version = scenario'.version PROVE x = scenario'
  BY <1>2, <1>3, <1>4, <1>5, <1>7 DEF Coherent
<1>8. \A x, y \in KnownRows' : x.version = y.version => x = y
  <2> SUFFICES ASSUME NEW x \in KnownRows', NEW y \in KnownRows', x.version = y.version
               PROVE  x = y
    OBVIOUS
  <2>1. CASE x \in KnownRows /\ y \in KnownRows
    BY <2>1 DEF Coherent
  <2>2. CASE x = scenario' \/ y = scenario'
    BY <2>2, <1>7
  <2> QED BY <2>1, <2>2
<1> QED BY <1>6, <1>8 DEF Coherent

\* A handler about to write whose client saw the version of the table has read the very
\* row of the table, and the client saw it too.
LEMMA NothingMissed ==
  ASSUME TypeOK, Ready, Coherent, NEW r \in Requests, pc[r] = "write",
         scenario.version = view[r].version
  PROVE  local[r] = scenario /\ view[r] = scenario
<1>1. view[r] \in Rows /\ local[r] \in Rows /\ view[r].version <= local[r].version
  BY DEF Ready, ReadyAt
<1>2. view[r] # None /\ local[r] # None
  BY <1>1, ConstantsAssumption
<1>3. {view[r], local[r], scenario} \subseteq KnownRows
  BY <1>2 DEF KnownRows
<1>4. local[r].version \in Nat /\ scenario.version \in Nat
  BY <1>1, RowFields DEF TypeOK
<1>5. local[r].version <= scenario.version
  BY <1>3 DEF Coherent
<1>6. local[r].version = scenario.version
  BY <1>1, <1>4, <1>5
<1> QED BY <1>3, <1>6 DEF Coherent

\* The checks of the handlers and the WHERE clauses agree: a refused write means that
\* the version is another.
LEMMA RefusedMeansChange ==
  ASSUME TypeOK, Ready, Coherent, NEW r \in Requests, pc[r] = "write", ~Matches(r)
  PROVE  scenario.version > view[r].version
<1>1. view[r] \in Rows /\ scenario \in Rows /\ call[r] \in Calls
  BY DEF Ready, ReadyAt, Statements, TypeOK
<1>2. view[r].version \in Nat /\ scenario.version \in Nat
  BY <1>1, RowFields
<1>3. view[r] \in KnownRows
  BY <1>1, ConstantsAssumption DEF KnownRows
<1>4. view[r].version <= scenario.version
  BY <1>3 DEF Coherent
<1>5. view[r].version # scenario.version
  <2> SUFFICES ASSUME view[r].version = scenario.version PROVE FALSE
    OBVIOUS
  <2>1. local[r] = scenario
    BY NothingMissed
  <2>2. Verdict(call[r], scenario) = "ok"
    BY <2>1 DEF Ready, ReadyAt
  <2>3. CASE call[r].kind = "update"
    BY <2>2, <2>3 DEF Verdict, Matches
  <2>4. CASE call[r].kind # "update"
    BY <2>1, <2>4 DEF Matches
  <2> QED BY <2>3, <2>4
<1> QED BY <1>2, <1>4, <1>5

-----------------------------------------------------------------------------
(* Typing.                                                                 *)

\* Moving a request on keeps pc and answer in their sets.
LEMMA GotoTyped ==
  ASSUME TypeOK, NEW r \in Requests, NEW st \in Statements \cup {"opened"}, Goto(r, st)
  PROVE  /\ pc' \in [Requests -> Statements \cup {"idle", "opened", "done"}]
         /\ answer' \in [Requests -> Statuses]
         /\ pc'[r] = st /\ answer' = answer
         /\ \A q \in Requests : q # r => pc'[q] = pc[q]
BY DEF TypeOK, Goto, Statements

LEMMA ReplyTyped ==
  ASSUME TypeOK, NEW r \in Requests, NEW st \in Statuses, Reply(r, st)
  PROVE  /\ pc' \in [Requests -> Statements \cup {"idle", "opened", "done"}]
         /\ answer' \in [Requests -> Statuses]
         /\ pc'[r] = "done" /\ answer'[r] = st
         /\ \A q \in Requests : q # r => pc'[q] = pc[q] /\ answer'[q] = answer[q]
BY DEF TypeOK, Reply

\* The verdicts are statuses.
LEMMA VerdictTyped ==
  \A c, x : Verdict(c, x) \in {"ok", "stateTransition", "forbidden", "reviewerConflict"}
BY DEF Verdict

\* The initial states satisfy the invariant.
LEMMA InitInv == Init => Inv
<1> SUFFICES ASSUME Init PROVE Inv
  OBVIOUS
<1>1. \A x \in Persisted : x \in Rows
  BY ConstantsAssumption DEF Persisted, Rows, ScenarioStates, Contents, Times, Dated
<1>2. TypeOK
  BY <1>1, ConstantsAssumption DEF Init, TypeOK, Statuses
<1>3. Ready
  BY DEF Init, Ready, ReadyAt, Statements
<1>4. KnownRows = {scenario}
  BY DEF Init, KnownRows
<1>5. scenario.version \in Nat
  BY <1>1, RowFields DEF Init
<1>6. Coherent
  BY <1>4, <1>5 DEF Coherent
<1>7. ReviewersAreIndependent
  <2>1. scenario \in Persisted
    BY DEF Init
  <2>2. \/ scenario.state \in {"draft", "analyzed"} /\ scenario.reviewedBy = None
        \/ scenario.state = "verified" /\ scenario.reviewedBy = SeedReviewer
    BY <2>1 DEF Persisted
  <2> QED BY <2>2, ConstantsAssumption DEF ReviewersAreIndependent, ReviewStates
<1>8. ConflictMeansChange
  BY DEF Init, ConflictMeansChange
<1> QED BY <1>2, <1>3, <1>6, <1>7, <1>8 DEF Inv

-----------------------------------------------------------------------------
(* One step.                                                               *)

\* The locals of request q are left alone.
Untouched(q) ==
  /\ pc'[q] = pc[q] /\ view'[q] = view[q] /\ call'[q] = call[q] /\ local'[q] = local[q]
  /\ answer'[q] = answer[q]

LEMMA UntouchedReady ==
  ASSUME NEW q \in Requests, ReadyAt(q), Untouched(q) PROVE ReadyAt(q)'
BY DEF ReadyAt, Untouched, Verdict

LEMMA UntouchedWritten ==
  ASSUME NEW q, view'[q] = view[q], call'[q] = call[q], local'[q] = local[q]
  PROVE  Written(q, local[q])' = Written(q, local[q])
BY DEF Written, NextState, Edited

\* What is known after a step of request r.
LEMMA KnownGrow ==
  ASSUME NEW r \in Requests,
         \A q \in Requests : q # r => Untouched(q),
         view'[r] \in {view[r], scenario'},
         local'[r] \in {local[r], scenario'},
         pc'[r] = "audit" => Written(r, local[r])' \in KnownRows \cup {scenario'},
         \A a \in audits' :
           a \in audits \/ {a.before, Restored(a.after)} \subseteq KnownRows,
         scenario \in KnownRows
  PROVE  KnownRows' \subseteq KnownRows \cup {scenario'}
<1> DEFINE Grown == KnownRows \cup {scenario'}
<1>1. ASSUME NEW q \in Requests, view'[q] # None PROVE view'[q] \in Grown
  BY <1>1 DEF KnownRows, Untouched
<1>2. ASSUME NEW q \in Requests, local'[q] # None PROVE local'[q] \in Grown
  BY <1>2 DEF KnownRows, Untouched
<1>3. ASSUME NEW q \in Requests, pc'[q] = "audit" PROVE Written(q, local[q])' \in Grown
  <2>1. CASE q = r
    BY <2>1, <1>3
  <2>2. CASE q # r
    <3>1. Written(q, local[q])' = Written(q, local[q])
      BY <2>2, UntouchedWritten DEF Untouched
    <3>2. pc[q] = "audit"
      BY <2>2, <1>3 DEF Untouched
    <3> QED BY <3>1, <3>2 DEF KnownRows
  <2> QED BY <2>1, <2>2
<1>4. \A a \in audits' : a.before \in Grown /\ Restored(a.after) \in Grown
  BY DEF KnownRows
<1> QED BY <1>1, <1>2, <1>3, <1>4 DEF KnownRows

\* A step that leaves the table alone keeps the invariant, if it keeps the types and
\* the knowledge of the handlers and adds no knowledge but of the row of the table.
LEMMA QuietStep ==
  ASSUME Inv, TypeOK', Ready', ConflictMeansChange', UNCHANGED scenario,
         KnownRows' \subseteq KnownRows \cup {scenario'}
  PROVE  Inv'
<1>1. scenario' \in Rows
  BY DEF Inv, TypeOK
<1>2. Coherent'
  BY <1>1, CoherentStep DEF Inv
<1>3. ReviewersAreIndependent'
  BY DEF Inv, ReviewersAreIndependent
<1> QED BY <1>2, <1>3 DEF Inv

LEMMA OpenStep == ASSUME Inv, NEW r \in Requests, Open(r) PROVE Inv'
<1>1. Goto(r, "opened") /\ scenario' = scenario /\ audits' = audits
        /\ view' = [view EXCEPT ![r] = scenario] /\ pc[r] = "idle"
        /\ UNCHANGED <<call, local, faults>> /\ TypeOK
  BY DEF Open, Inv
<1>2. /\ pc' \in [Requests -> Statements \cup {"idle", "opened", "done"}]
      /\ answer' = answer /\ pc'[r] = "opened"
      /\ \A q \in Requests : q # r => pc'[q] = pc[q]
  BY <1>1, GotoTyped
<1>3. view' \in [Requests -> Rows \cup {None}] /\ view'[r] = scenario
        /\ \A q \in Requests : q # r => view'[q] = view[q]
  BY <1>1 DEF TypeOK
<1>4. TypeOK'
  BY <1>1, <1>2, <1>3 DEF TypeOK
<1>5. \A q \in Requests : q # r => Untouched(q)
  BY <1>1, <1>2, <1>3 DEF Untouched
<1>6. ReadyAt(r)'
  BY <1>1, <1>2, <1>3 DEF ReadyAt, Statements, TypeOK, Inv, Ready
<1>7. Ready'
  BY <1>5, <1>6, UntouchedReady DEF Inv, Ready
<1>8. answer[r] # "conflict"
  BY <1>1 DEF Inv, Ready, ReadyAt
<1>9. ConflictMeansChange'
  BY <1>1, <1>2, <1>3, <1>8 DEF Inv, ConflictMeansChange
<1>10. KnownRows' \subseteq KnownRows \cup {scenario'}
  <2>1. scenario \in KnownRows
    BY DEF KnownRows
  <2> QED BY <1>1, <1>2, <1>3, <1>5, <2>1, KnownGrow
<1> QED BY <1>1, <1>4, <1>7, <1>9, <1>10, QuietStep

LEMMA SendStep == ASSUME Inv, NEW r \in Requests, Send(r) PROVE Inv'
<1>1. PICK c \in Traffic :
        /\ call' = [call EXCEPT ![r] = c]
        /\ Goto(r, "read") \/ Reply(r, "forbidden")
  BY DEF Send
<1>2. /\ pc[r] = "opened" /\ TypeOK
      /\ UNCHANGED <<scenario, audits, view, local, faults>>
  BY DEF Send, Inv
<1>3. /\ pc' \in [Requests -> Statements \cup {"idle", "opened", "done"}]
      /\ answer' \in [Requests -> Statuses]
      /\ pc'[r] \in {"read", "done"}
      /\ answer'[r] # "pending" => pc'[r] = "done"
      /\ answer'[r] # "conflict"
      /\ \A q \in Requests : q # r => pc'[q] = pc[q] /\ answer'[q] = answer[q]
  <2>1. answer[r] = "pending"
    BY <1>2 DEF Inv, Ready, ReadyAt
  <2>2. CASE Goto(r, "read")
    BY <1>2, <2>1, <2>2, GotoTyped DEF Statements, TypeOK
  <2>3. CASE Reply(r, "forbidden")
    BY <1>2, <2>3, ReplyTyped DEF Statuses
  <2> QED BY <1>1, <2>2, <2>3
<1>4. call' \in [Requests -> Calls \cup {None}] /\ call'[r] \in Calls
        /\ \A q \in Requests : q # r => call'[q] = call[q]
  BY <1>1, <1>2, ConstantsAssumption DEF TypeOK
<1>5. TypeOK'
  BY <1>2, <1>3, <1>4 DEF TypeOK
<1>6. \A q \in Requests : q # r => Untouched(q)
  BY <1>2, <1>3, <1>4 DEF Untouched
<1>7. ReadyAt(r)'
  BY <1>2, <1>3, <1>4 DEF ReadyAt, Statements, Inv, Ready
<1>8. Ready'
  BY <1>6, <1>7, UntouchedReady DEF Inv, Ready
<1>9. ConflictMeansChange'
  BY <1>2, <1>3 DEF Inv, ConflictMeansChange
<1>10. KnownRows' \subseteq KnownRows \cup {scenario'}
  <2>1. scenario \in KnownRows
    BY DEF KnownRows
  <2> QED BY <1>2, <1>3, <1>6, <2>1, KnownGrow
<1> QED BY <1>2, <1>5, <1>8, <1>9, <1>10, QuietStep

LEMMA ReadStep == ASSUME Inv, NEW r \in Requests, Read(r) PROVE Inv'
<1>1. /\ pc[r] = "read" /\ TypeOK
      /\ UNCHANGED <<scenario, audits, view, call, faults>>
  BY DEF Read, Inv
<1>2. /\ local' \in [Requests -> Rows \cup {None}]
      /\ local'[r] \in {local[r], scenario'}
      /\ \A q \in Requests : q # r => local'[q] = local[q]
  BY <1>1 DEF Read, TypeOK
<1>3. \/ \E st \in Statuses \ {"pending", "conflict"} : Reply(r, st)
      \/ /\ Goto(r, "write") /\ local'[r] = scenario
         /\ Verdict(call[r], scenario) = "ok"
  <2>1. CASE ~call[r].found
    BY <2>1 DEF Read, Statuses
  <2>2. CASE call[r].found
    <3>1. local'[r] = scenario
      BY <2>2, <1>1 DEF Read, TypeOK
    <3>2. Verdict(call[r], scenario) \in Statuses \ {"pending", "conflict"}
      BY VerdictTyped DEF Statuses
    <3> QED BY <2>2, <3>1, <3>2 DEF Read
  <2> QED BY <2>1, <2>2
<1>4. /\ pc' \in [Requests -> Statements \cup {"idle", "opened", "done"}]
      /\ answer' \in [Requests -> Statuses]
      /\ \/ pc'[r] = "done"
         \/ /\ pc'[r] = "write" /\ local'[r] = scenario /\ answer'[r] = answer[r]
            /\ Verdict(call[r], scenario) = "ok"
      /\ answer'[r] # "conflict"
      /\ \A q \in Requests : q # r => pc'[q] = pc[q] /\ answer'[q] = answer[q]
  <2>1. answer[r] = "pending"
    BY <1>1 DEF Inv, Ready, ReadyAt
  <2>2. CASE \E st \in Statuses \ {"pending", "conflict"} : Reply(r, st)
    BY <1>1, <2>2, ReplyTyped
  <2>3. CASE Goto(r, "write") /\ local'[r] = scenario /\ Verdict(call[r], scenario) = "ok"
    BY <1>1, <2>1, <2>3, GotoTyped DEF Statements, TypeOK
  <2> QED BY <1>3, <2>2, <2>3
<1>5. TypeOK'
  BY <1>1, <1>2, <1>4 DEF TypeOK
<1>6. \A q \in Requests : q # r => Untouched(q)
  BY <1>1, <1>2, <1>4 DEF Untouched
<1>7. ReadyAt(r)'
  <2>1. view[r] \in Rows /\ call[r] \in Calls /\ answer[r] = "pending"
    BY <1>1 DEF Inv, Ready, ReadyAt, Statements
  <2>2. view[r] \in KnownRows
    BY <2>1, ConstantsAssumption DEF KnownRows
  <2>3. view[r].version <= scenario.version /\ scenario \in Rows
    BY <2>2, <1>1 DEF Inv, Coherent, TypeOK
  <2>4. CASE pc'[r] = "done"
    BY <1>1, <2>1, <2>4 DEF ReadyAt, Statements
  <2>5. CASE /\ pc'[r] = "write" /\ local'[r] = scenario /\ answer'[r] = answer[r]
             /\ Verdict(call[r], scenario) = "ok"
    <3>1. Verdict(call'[r], local'[r]) = "ok"
      BY <1>1, <2>5
    <3>2. Verdict(call[r], local[r])' = "ok"
      BY <3>1 DEF Verdict
    <3> QED BY <1>1, <2>1, <2>3, <2>5, <3>2 DEF ReadyAt, Statements
  <2> QED BY <1>4, <2>4, <2>5
<1>8. Ready'
  BY <1>6, <1>7, UntouchedReady DEF Inv, Ready
<1>9. ConflictMeansChange'
  BY <1>1, <1>4 DEF Inv, ConflictMeansChange
<1>10. KnownRows' \subseteq KnownRows \cup {scenario'}
  <2>1. scenario \in KnownRows
    BY DEF KnownRows
  <2> QED BY <1>1, <1>2, <1>4, <1>6, <2>1, KnownGrow
<1> QED BY <1>1, <1>5, <1>8, <1>9, <1>10, QuietStep

\* What holds when a write takes effect.
LEMMA WriteFacts ==
  ASSUME Inv, NEW r \in Requests, Write(r), Matches(r)
  PROVE  /\ local[r] = scenario /\ view[r] = scenario
         /\ scenario \in Rows /\ call[r] \in Calls
         /\ Verdict(call[r], scenario) = "ok"
         /\ scenario' = Written(r, scenario) /\ scenario' \in Rows
         /\ scenario'.version = scenario.version + 1
         /\ Goto(r, "audit")
         /\ UNCHANGED <<audits, view, call, local, faults>>
<1>1. pc[r] = "write" /\ scenario.version = view[r].version
        /\ scenario' = Written(r, scenario)
        /\ Goto(r, "audit") /\ UNCHANGED <<audits, view, call, local, faults>>
  BY DEF Write, Matches
<1>2. local[r] = scenario /\ view[r] = scenario
  BY <1>1, NothingMissed DEF Inv
<1>3. scenario \in Rows /\ call[r] \in Calls /\ Verdict(call[r], scenario) = "ok"
  BY <1>1, <1>2 DEF Inv, TypeOK, Ready, ReadyAt, Statements
<1>4. scenario' \in Rows /\ scenario'.version = scenario.version + 1
  BY <1>1, <1>2, <1>3, WrittenIsRow
<1> QED BY <1>1, <1>2, <1>3, <1>4

\* The next row of a reviewed scenario has an independent reviewer.
LEMMA WriteReviewers ==
  ASSUME Inv, NEW r \in Requests, Write(r), Matches(r)
  PROVE  ReviewersAreIndependent'
<1> USE WriteFacts
<1>1. /\ Written(r, scenario).state = NextState(r, scenario)
      /\ Written(r, scenario).reviewedBy =
           IF ReviewAction(call[r]) THEN call[r].actor ELSE scenario.reviewedBy
  BY WrittenIsRow
<1>2. CASE ReviewAction(call[r])
  <2>1. call[r].kind = "transition" /\ call[r].to \in {"verified", "accepted"}
    BY <1>2 DEF ReviewAction, ReviewStates
  <2>2. RoleMayMove(RoleOf[call[r].actor], call[r].to) /\ call[r].actor # Author
    BY <1>2, <2>1 DEF Verdict
  <2>3. RoleOf[call[r].actor] \in {"admin", "safety_reviewer"}
    BY <2>1, <2>2 DEF RoleMayMove
  <2>4. call[r].actor # None
    BY ConstantsAssumption DEF Calls, UpdateCalls, TransitionCalls
  <2> QED BY <1>1, <1>2, <2>2, <2>3, <2>4 DEF ReviewersAreIndependent
<1>3. CASE ~ReviewAction(call[r])
  <2>1. scenario'.reviewedBy = scenario.reviewedBy
    BY <1>1, <1>3
  <2>2. NextState(r, scenario) \notin ReviewStates
    <3>1. CASE call[r].kind = "transition"
      BY <1>3, <3>1 DEF NextState, ReviewAction
    <3>2. CASE call[r].kind = "update"
      BY <3>2 DEF NextState, Verdict, EditableStates, ReviewStates
    <3> QED BY <3>1, <3>2 DEF Calls, UpdateCalls, TransitionCalls
  <2>3. scenario'.state \notin ReviewStates
    BY <1>1, <2>2
  <2> QED BY <2>1, <2>3 DEF Inv, ReviewersAreIndependent
<1> QED BY <1>2, <1>3

LEMMA WriteStep == ASSUME Inv, NEW r \in Requests, Write(r) PROVE Inv'
<1>1. /\ pc[r] = "write" /\ TypeOK
      /\ UNCHANGED <<audits, view, call, local, faults>>
  BY DEF Write, Inv
<1>2. /\ view[r] \in Rows /\ call[r] \in Calls /\ local[r] \in Rows
      /\ answer[r] = "pending"
  BY <1>1 DEF Inv, Ready, ReadyAt, Statements
<1>3. scenario \in KnownRows
  BY DEF KnownRows
<1>4. CASE Matches(r)
  <2>1. /\ pc' \in [Requests -> Statements \cup {"idle", "opened", "done"}]
        /\ answer' = answer /\ pc'[r] = "audit"
        /\ \A q \in Requests : q # r => pc'[q] = pc[q]
    BY <1>1, <1>4, WriteFacts, GotoTyped DEF Statements
  <2>2. TypeOK'
    BY <1>1, <1>4, <2>1, WriteFacts DEF TypeOK
  <2>3. \A q \in Requests : q # r => Untouched(q)
    BY <1>1, <2>1 DEF Untouched
  <2>4. ReadyAt(r)'
    BY <1>1, <1>2, <2>1 DEF ReadyAt
  <2>5. Ready'
    BY <2>3, <2>4, UntouchedReady DEF Inv, Ready
  <2>6. ConflictMeansChange'
    <3>1. \A q \in Requests : answer[q] = "conflict" => view[q] \in Rows
      BY DEF Inv, Ready, ReadyAt
    <3>2. \A q \in Requests : answer[q] = "conflict" => view[q].version \in Nat
      BY <3>1, RowFields
    <3>3. scenario.version \in Nat /\ scenario'.version = scenario.version + 1
      BY <1>4, WriteFacts, RowFields
    <3> QED BY <1>1, <2>1, <3>2, <3>3 DEF Inv, ConflictMeansChange
  <2>7. KnownRows' \subseteq KnownRows \cup {scenario'}
    <3>1. Written(r, local[r])' = Written(r, local[r])
      BY <1>1, UntouchedWritten
    <3>2. Written(r, local[r])' = scenario'
      BY <1>4, <3>1, WriteFacts
    <3> QED BY <1>1, <1>3, <2>3, <3>2, KnownGrow
  <2>8. Coherent'
    BY <1>4, <2>7, WriteFacts, CoherentStep DEF Inv
  <2>9. ReviewersAreIndependent'
    BY <1>4, WriteReviewers
  <2> QED BY <2>2, <2>5, <2>6, <2>8, <2>9 DEF Inv
<1>5. CASE ~Matches(r)
  <2>1. Reply(r, "conflict") /\ scenario' = scenario
    BY <1>5 DEF Write
  <2>2. /\ pc' \in [Requests -> Statements \cup {"idle", "opened", "done"}]
        /\ answer' \in [Requests -> Statuses]
        /\ pc'[r] = "done" /\ answer'[r] = "conflict"
        /\ \A q \in Requests : q # r => pc'[q] = pc[q] /\ answer'[q] = answer[q]
    BY <1>1, <2>1, ReplyTyped DEF Statuses
  <2>3. TypeOK'
    BY <1>1, <2>1, <2>2 DEF TypeOK
  <2>4. \A q \in Requests : q # r => Untouched(q)
    BY <1>1, <2>2 DEF Untouched
  <2>5. ReadyAt(r)'
    BY <1>1, <1>2, <2>2 DEF ReadyAt, Statements
  <2>6. Ready'
    BY <2>4, <2>5, UntouchedReady DEF Inv, Ready
  <2>7. ConflictMeansChange'
    <3>1. scenario.version > view[r].version
      BY <1>1, <1>5, RefusedMeansChange DEF Inv
    <3> QED BY <1>1, <2>1, <2>2, <3>1 DEF Inv, ConflictMeansChange
  <2>8. KnownRows' \subseteq KnownRows \cup {scenario'}
    BY <1>1, <1>3, <2>2, <2>4, KnownGrow
  <2> QED BY <2>1, <2>3, <2>6, <2>7, <2>8, QuietStep
<1> QED BY <1>4, <1>5

LEMMA AuditStep == ASSUME Inv, NEW r \in Requests, RecordAudit(r) PROVE Inv'
<1>1. /\ pc[r] = "audit" /\ TypeOK /\ Goto(r, "get")
      /\ audits' = audits \cup {AuditEntry(r)}
      /\ UNCHANGED <<scenario, view, call, local, faults>>
  BY DEF RecordAudit, Inv
<1>2. /\ view[r] \in Rows /\ call[r] \in Calls /\ local[r] \in Rows
      /\ answer[r] = "pending"
  BY <1>1 DEF Inv, Ready, ReadyAt, Statements
<1>3. /\ pc' \in [Requests -> Statements \cup {"idle", "opened", "done"}]
      /\ answer' = answer /\ pc'[r] = "get"
      /\ \A q \in Requests : q # r => pc'[q] = pc[q]
  BY <1>1, GotoTyped DEF Statements
<1>4. AuditEntry(r) \in AuditRows
  <2>1. Copied(r) \in Rows
    BY <1>2, CopiedIsWritten
  <2>2. call[r].actor \in Users /\ call[r].kind \in {"update", "transition"}
    BY <1>2 DEF Calls, UpdateCalls, TransitionCalls
  <2> QED BY <1>2, <2>1, <2>2 DEF AuditEntry, AuditRows
<1>5. TypeOK'
  BY <1>1, <1>3, <1>4 DEF TypeOK
<1>6. \A q \in Requests : q # r => Untouched(q)
  BY <1>1, <1>3 DEF Untouched
<1>7. ReadyAt(r)'
  BY <1>1, <1>2, <1>3 DEF ReadyAt, Statements
<1>8. Ready'
  BY <1>6, <1>7, UntouchedReady DEF Inv, Ready
<1>9. ConflictMeansChange'
  BY <1>1, <1>3 DEF Inv, ConflictMeansChange
<1>10. KnownRows' \subseteq KnownRows \cup {scenario'}
  <2>1. local[r] \in KnownRows
    BY <1>2, ConstantsAssumption DEF KnownRows
  <2>2. Written(r, local[r]) \in KnownRows
    BY <1>1 DEF KnownRows
  <2>3. /\ AuditEntry(r).before = local[r]
        /\ Restored(AuditEntry(r).after) = Written(r, local[r])
    BY <1>2, CopiedIsWritten DEF AuditEntry
  <2>4. scenario \in KnownRows
    BY DEF KnownRows
  <2>5. \A a \in audits' :
          a \in audits \/ {a.before, Restored(a.after)} \subseteq KnownRows
    BY <1>1, <2>1, <2>2, <2>3
  <2> QED BY <1>1, <1>3, <1>6, <2>4, <2>5, KnownGrow
<1> QED BY <1>1, <1>5, <1>8, <1>9, <1>10, QuietStep

\* A request that is answered, with anything but a conflict, changes nothing else.
LEMMA AnswerStep ==
  ASSUME Inv, NEW r \in Requests, NEW st \in Statuses \ {"conflict"}, Reply(r, st),
         pc[r] \in Statements, faults' \in 0..MaxFaults,
         UNCHANGED <<scenario, audits, view, call, local>>
  PROVE  Inv'
<1>1. TypeOK /\ view[r] \in Rows
  BY DEF Inv, Ready, ReadyAt, Statements
<1>2. /\ pc' \in [Requests -> Statements \cup {"idle", "opened", "done"}]
      /\ answer' \in [Requests -> Statuses]
      /\ pc'[r] = "done" /\ answer'[r] # "conflict"
      /\ \A q \in Requests : q # r => pc'[q] = pc[q] /\ answer'[q] = answer[q]
  BY <1>1, ReplyTyped
<1>3. TypeOK'
  BY <1>1, <1>2 DEF TypeOK
<1>4. \A q \in Requests : q # r => Untouched(q)
  BY <1>2 DEF Untouched
<1>5. ReadyAt(r)'
  BY <1>1, <1>2 DEF ReadyAt, Statements
<1>6. Ready'
  BY <1>4, <1>5, UntouchedReady DEF Inv, Ready
<1>7. ConflictMeansChange'
  BY <1>2 DEF Inv, ConflictMeansChange
<1>8. KnownRows' \subseteq KnownRows \cup {scenario'}
  <2>1. scenario \in KnownRows
    BY DEF KnownRows
  <2> QED BY <1>2, <1>4, <2>1, KnownGrow
<1> QED BY <1>3, <1>6, <1>7, <1>8, QuietStep

LEMMA FaultCount == Inv /\ faults < MaxFaults => faults + 1 \in 0..MaxFaults
BY ConstantsAssumption DEF Inv, TypeOK

LEMMA CrashStep == ASSUME Inv, Crash PROVE Inv'
<1>1. /\ UNCHANGED <<scenario, audits, view, call, local>> /\ TypeOK
      /\ faults' \in 0..MaxFaults
  BY FaultCount DEF Crash, Inv
<1>2. /\ pc' \in [Requests -> Statements \cup {"idle", "opened", "done"}]
      /\ answer' \in [Requests -> Statuses]
  BY <1>1 DEF Crash, TypeOK, Statuses
<1>3. \A q \in Requests :
        IF pc[q] \in Statements THEN pc'[q] = "done" /\ answer'[q] = "lost"
        ELSE pc'[q] = pc[q] /\ answer'[q] = answer[q]
  BY DEF Crash
<1>4. TypeOK'
  BY <1>1, <1>2 DEF TypeOK
<1>5. ASSUME NEW q \in Requests PROVE ReadyAt(q)'
  <2>1. ReadyAt(q)
    BY DEF Inv, Ready
  <2>2. CASE pc[q] \in Statements
    BY <1>1, <1>3, <2>1, <2>2 DEF ReadyAt, Statements
  <2>3. CASE pc[q] \notin Statements
    BY <1>1, <1>3, <2>1, <2>3, UntouchedReady DEF Untouched
  <2> QED BY <2>2, <2>3
<1>6. Ready'
  BY <1>5 DEF Ready
<1>7. ConflictMeansChange'
  BY <1>1, <1>3 DEF Inv, ConflictMeansChange
<1>8. KnownRows' \subseteq KnownRows \cup {scenario'}
  <2>1. \A q \in Requests : Written(q, local[q])' = Written(q, local[q])
    BY <1>1, UntouchedWritten
  <2>2. \A q \in Requests : pc'[q] = "audit" => pc[q] = "audit"
    BY <1>3
  <2> QED BY <1>1, <2>1, <2>2 DEF KnownRows
<1> QED BY <1>1, <1>4, <1>6, <1>7, <1>8, QuietStep

LEMMA StutterStep == ASSUME Inv, UNCHANGED vars PROVE Inv'
<1>1. UNCHANGED <<scenario, audits, pc, view, call, local, answer, faults>>
  BY DEF vars
<1>2. TypeOK' /\ ReviewersAreIndependent' /\ ConflictMeansChange'
  BY <1>1 DEF Inv, TypeOK, ReviewersAreIndependent, ConflictMeansChange
<1>3. Ready'
  BY <1>1, UntouchedReady DEF Inv, Ready, Untouched
<1>4. KnownRows' = KnownRows
  BY <1>1, UntouchedWritten DEF KnownRows
<1> QED BY <1>1, <1>2, <1>3, <1>4, QuietStep

LEMMA NextInv == Inv /\ [Next]_vars => Inv'
<1> SUFFICES ASSUME Inv, [Next]_vars PROVE Inv'
  OBVIOUS
<1>1. ASSUME NEW r \in Requests, Step(r) PROVE Inv'
  <2>1. CASE Open(r)
    BY <2>1, OpenStep
  <2>2. CASE Send(r)
    BY <2>2, SendStep
  <2>3. CASE Read(r)
    BY <2>3, ReadStep
  <2>4. CASE Write(r)
    BY <2>4, WriteStep
  <2>5. CASE RecordAudit(r)
    BY <2>5, AuditStep
  <2>6. CASE Get(r)
    <3>1. Reply(r, "ok") /\ "ok" \in Statuses \ {"conflict"} /\ pc[r] \in Statements
      BY <2>6 DEF Get, Statuses, Statements
    <3>2. UNCHANGED <<scenario, audits, view, call, local, faults>>
      BY <2>6 DEF Get
    <3>3. faults' \in 0..MaxFaults
      BY <3>2 DEF Inv, TypeOK
    <3> QED BY <3>1, <3>2, <3>3, AnswerStep
  <2>7. CASE StatementFails(r)
    <3>1. /\ Reply(r, "internal") /\ "internal" \in Statuses \ {"conflict"}
          /\ pc[r] \in Statements /\ faults' \in 0..MaxFaults
          /\ UNCHANGED <<scenario, audits, view, call, local>>
      BY <2>7, FaultCount DEF StatementFails, Statuses
    <3> QED BY <3>1, AnswerStep
  <2> QED BY <1>1, <2>1, <2>2, <2>3, <2>4, <2>5, <2>6, <2>7 DEF Step
<1>2. CASE Crash
  BY <1>2, CrashStep
<1>3. CASE Quiescent \/ UNCHANGED vars
  BY <1>3, StutterStep DEF Quiescent
<1> QED BY <1>1, <1>2, <1>3 DEF Next

\* Every reachable state satisfies the inductive invariant.
THEOREM Inductive == Spec => []Inv
BY InitInv, NextInv, PTL DEF Spec

-----------------------------------------------------------------------------
(* The properties.                                                         *)

\* Tables, locals and answers keep their types (every handler of ScenarioReview).
THEOREM TypeOKInvariant == Spec => []TypeOK
BY Inductive, PTL DEF Inv

\* A version number names one row for good, in the table, on the screens of clients, in
\* handlers and in the before snapshots of the audit log, and the after snapshots are
\* that row but for the time of the change (UpdateWithVersion and Transition).
THEOREM VersionsAreRows == Spec => []VersionNamesOneRow
<1>1. Inv => VersionNamesOneRow
  <2> SUFFICES ASSUME Inv PROVE VersionNamesOneRow
    OBVIOUS
  <2>1. RowsRead \subseteq KnownRows /\ KnownRows \subseteq Rows
    BY KnownAreRows DEF RowsRead, KnownRows, Inv
  <2>2. ASSUME NEW x \in RowsComputed
        PROVE  \E z \in KnownRows : z.version = x.version /\ SameButForTime(x, z)
    <3>1. CASE \E r \in Requests : pc[r] = "audit" /\ x = Copied(r)
      <4>1. PICK r \in Requests : pc[r] = "audit" /\ x = Copied(r)
        BY <3>1
      <4>2. local[r] \in Rows /\ view[r] \in Rows /\ call[r] \in Calls
        BY <4>1 DEF Inv, Ready, ReadyAt, Statements
      <4>3. Written(r, local[r]) \in KnownRows
        BY <4>1 DEF KnownRows
      <4> QED BY <4>1, <4>2, <4>3, CopiedIsWritten
    <3>2. CASE \E a \in audits : x = a.after
      <4>1. PICK a \in audits : x = a.after
        BY <3>2
      <4>2. x \in Rows /\ Restored(x) \in KnownRows
        BY <4>1 DEF Inv, TypeOK, AuditRows, KnownRows
      <4>3. Restored(x).version = x.version /\ SameButForTime(x, Restored(x))
        BY <4>2, RestoredIsRow DEF SameButForTime
      <4> QED BY <4>2, <4>3
    <3> QED BY <2>2, <3>1, <3>2 DEF RowsComputed
  <2>3. ASSUME NEW x \in RowsRead \cup RowsComputed
        PROVE  \E z \in KnownRows : z.version = x.version /\ SameButForTime(x, z)
    <3>1. CASE x \in RowsRead
      BY <2>1, <3>1 DEF SameButForTime
    <3>2. CASE x \in RowsComputed
      BY <2>2, <3>2
    <3> QED BY <2>3, <3>1, <3>2
  <2>4. \A x, y \in KnownRows : x.version = y.version => x = y
    BY DEF Inv, Coherent
  <2>5. \A x, y \in RowsRead : x.version = y.version => x = y
    BY <2>1, <2>4
  <2>6. ASSUME NEW x \in RowsComputed, NEW y \in RowsRead \cup RowsComputed,
               x.version = y.version
        PROVE  SameButForTime(x, y)
    <3>1. PICK z \in KnownRows : z.version = x.version /\ SameButForTime(x, z)
      BY <2>2
    <3>2. PICK u \in KnownRows : u.version = y.version /\ SameButForTime(y, u)
      BY <2>3
    <3>3. z = u
      BY <2>4, <2>6, <3>1, <3>2
    <3> QED BY <3>1, <3>2, <3>3 DEF SameButForTime
  <2> QED BY <2>5, <2>6 DEF VersionNamesOneRow
<1> QED BY Inductive, <1>1, PTL

\* Verified and accepted scenarios were reviewed by a reviewer or administrator who is
\* not the author (Transition).
THEOREM ReviewIsIndependent == Spec => []ReviewersAreIndependent
BY Inductive, PTL DEF Inv

\* Nobody is told of a concurrent change that did not happen (the checks on the row
\* read and the WHERE clauses of the writes agree).
THEOREM ConflictsAreReal == Spec => []ConflictMeansChange
BY Inductive, PTL DEF Inv

\* A step of a request that is at its write, and after it at its audit entry, is a
\* write that takes effect.
LEMMA EffectiveWrite ==
  ASSUME Inv, Next, NEW r \in Requests, pc[r] = "write", pc'[r] = "audit"
  PROVE  Write(r) /\ Matches(r)
<1>1. pc \in [Requests -> Statements \cup {"idle", "opened", "done"}]
  BY DEF Inv, TypeOK
<1>2. ~Crash /\ ~Quiescent
  BY DEF Crash, Quiescent, Statements, vars
<1>3. PICK q \in Requests : Step(q)
  BY <1>2 DEF Next
<1>4. \A st : Goto(q, st) => \A p \in Requests : p # q => pc'[p] = pc[p]
  BY <1>1 DEF Goto
<1>5. \A st : Reply(q, st) =>
        pc'[q] = "done" /\ \A p \in Requests : p # q => pc'[p] = pc[p]
  BY <1>1 DEF Reply
<1>6. (\E st : Goto(q, st)) \/ (\E st : Reply(q, st))
  BY <1>3 DEF Step, Open, Send, Read, Write, RecordAudit, Get, StatementFails
<1>7. q = r
  BY <1>4, <1>5, <1>6
<1>8. ~(\E st : Reply(r, st))
  BY <1>5, <1>7
<1>9. Write(r)
  BY <1>3, <1>7, <1>8 DEF Step, Open, Send, Read, RecordAudit, Get, StatementFails
<1> QED BY <1>8, <1>9 DEF Write

\* A request changes the scenario only while it is the row its client decided on (the
\* version condition of UpdateWithVersion and Transition).
THEOREM DecisionsAreInformed == Spec => DecidesOnWhatItSaw
<1> DEFINE Informed ==
      \A r \in Requests : pc[r] = "write" /\ pc'[r] = "audit" => scenario = view[r]
<1>1. Inv /\ [Next]_vars => [Informed]_vars
  <2> SUFFICES ASSUME Inv, Next, NEW r \in Requests, pc[r] = "write", pc'[r] = "audit"
               PROVE  scenario = view[r]
    OBVIOUS
  <2> QED BY EffectiveWrite, WriteFacts
<1>2. DecidesOnWhatItSaw <=> [][Informed]_vars
  BY DEF DecidesOnWhatItSaw
<1> HIDE DEF Informed
<1> QED BY <1>1, <1>2, Inductive, PTL DEF Spec

\* A write that takes effect is an atomic edit or move of the abstract scenario.
LEMMA WriteImplements ==
  ASSUME Inv, NEW r \in Requests, Write(r), Matches(r)
  PROVE  Lifecycle!Next
<1> DEFINE c == call[r]
           reviewers == {u \in Users : RoleOf[u] \in {"admin", "safety_reviewer"}}
<1> USE WriteFacts
<1>1. scenario' = [state |-> NextState(r, scenario), version |-> scenario.version + 1,
                   content |-> IF c.kind = "update" THEN Edited(r) ELSE scenario.content,
                   reviewedBy |-> IF ReviewAction(c) THEN c.actor ELSE scenario.reviewedBy,
                   updatedAt |-> Lifecycle!Dated(r)]
  BY DEF Written, Dated, Lifecycle!Dated
<1>2. CASE c.kind = "update"
  <2>1. scenario.state \in {"draft", "rework"}
    BY <1>2 DEF Verdict, EditableStates
  <2>2. c.fields \in SUBSET Fields
    BY <1>2 DEF Calls, UpdateCalls, TransitionCalls
  <2>3. Edited(r) = [f \in Fields |-> IF f \in c.fields THEN r ELSE scenario.content[f]]
    BY DEF Edited
  <2>4. ~ReviewAction(c) /\ NextState(r, scenario) = scenario.state
    BY <1>2 DEF ReviewAction, NextState
  <2>5. scenario' = [state |-> scenario.state, version |-> scenario.version + 1,
                     content |-> [f \in Fields |-> IF f \in c.fields THEN r
                                                   ELSE scenario.content[f]],
                     reviewedBy |-> scenario.reviewedBy, updatedAt |-> Lifecycle!Dated(r)]
    BY <1>1, <1>2, <2>3, <2>4
  <2>6. Lifecycle!Edit(r, c.fields)
    BY <2>1, <2>5 DEF Lifecycle!Edit
  <2> QED BY <2>2, <2>6 DEF Lifecycle!Next
<1>3. CASE c.kind = "transition"
  <2>1. /\ c.to \in {"analyzed", "verified", "accepted", "rework"} /\ c.actor \in Users
        /\ c.kind # "update"
    BY <1>3 DEF Calls, UpdateCalls, TransitionCalls
  <2>2. /\ RoleMayMove(RoleOf[c.actor], c.to) /\ CanTransitionScenario(scenario.state, c.to)
        /\ ~(ReviewAction(c) /\ c.actor = Author)
    BY <2>1 DEF Verdict
  <2>3. <<scenario.state, c.to>> \in Lifecycle!Flow
    <3>1. scenario.state \in ScenarioStates
      BY RowFields
    <3> QED BY <2>2, <3>1 DEF CanTransitionScenario, ScenarioTransitions, ScenarioStates,
                              Lifecycle!Flow
  <2>4. CASE c.to \in {"verified", "accepted"}
    <3>1. ReviewAction(c)
      BY <1>3, <2>4 DEF ReviewAction, ReviewStates
    <3>2. c.actor \in reviewers /\ c.actor # Author
      BY <2>1, <2>2, <2>4, <3>1 DEF RoleMayMove
    <3>3. scenario' = [state |-> c.to, version |-> scenario.version + 1,
                       content |-> scenario.content, reviewedBy |-> c.actor,
                       updatedAt |-> Lifecycle!Dated(r)]
      BY <1>1, <1>3, <2>1, <3>1 DEF NextState
    <3>4. Lifecycle!Move(r, c.to, c.actor)
      BY <2>3, <3>3 DEF Lifecycle!Move
    <3>5. Lifecycle!Review(r, c.to)
      BY <2>4, <3>2, <3>4 DEF Lifecycle!Review
    <3> QED BY <2>4, <3>5 DEF Lifecycle!Next
  <2>5. CASE c.to \in {"analyzed", "rework"}
    <3>1. ~ReviewAction(c)
      BY <2>5 DEF ReviewAction, ReviewStates
    <3>2. scenario' = [state |-> c.to, version |-> scenario.version + 1,
                       content |-> scenario.content, reviewedBy |-> scenario.reviewedBy,
                       updatedAt |-> Lifecycle!Dated(r)]
      BY <1>1, <1>3, <2>1, <3>1 DEF NextState
    <3>3. Lifecycle!Resubmit(r, c.to)
      BY <2>3, <2>5, <3>2 DEF Lifecycle!Move, Lifecycle!Resubmit
    <3> QED BY <2>5, <3>3 DEF Lifecycle!Next
  <2> QED BY <2>1, <2>4, <2>5
<1> QED BY <1>2, <1>3 DEF Calls, UpdateCalls, TransitionCalls

\* Update and Transition, which read the scenario in one statement and write it in
\* another, implement atomic edits and moves (ScenarioLifecycle).
THEOREM Refinement == Spec => ImplementsScenarioLifecycle
<1>1. Init => Lifecycle!Init
  BY DEF Init, Lifecycle!Init
<1>2. Inv /\ [Next]_vars => [Lifecycle!Next]_scenario
  <2> SUFFICES ASSUME Inv, [Next]_vars, scenario' # scenario PROVE Lifecycle!Next
    OBVIOUS
  <2>1. \E r \in Requests : Write(r) /\ Matches(r)
    BY DEF Next, Step, Open, Send, Read, Write, RecordAudit, Get, StatementFails, Crash,
           Quiescent, vars
  <2> QED BY <2>1, WriteImplements
<1> QED BY <1>1, <1>2, Inductive, PTL DEF Spec, ImplementsScenarioLifecycle, Lifecycle!Spec
=============================================================================
