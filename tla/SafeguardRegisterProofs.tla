------------------------ MODULE SafeguardRegisterProofs ------------------------
(***************************************************************************)
(* Proofs about SafeguardRegister, for any number of requests, users and   *)
(* days, and any intervals.                                                *)
(***************************************************************************)
EXTENDS SafeguardRegister, TLAPS

Row(state, interval, verifiedAt, verifiedBy, note) ==
  [state |-> state, interval |-> interval, verifiedAt |-> verifiedAt,
   verifiedBy |-> verifiedBy, note |-> note]

Verified(x) == x.verifiedAt # None /\ x.verifiedBy # None

\* A row as Create registers it.
Registration(x) ==
  /\ x \in Rows
  /\ \/ x.state = "pending" /\ x.verifiedAt = None /\ x.verifiedBy = None
     \/ x.state \in {"active", "expired"} /\ Verified(x)

MoveKinds == {"verify", "invalidate", "restore"}

\* What a handler knows at each of its statements.
ReadyAt(r) ==
  /\ pc[r] \in Statements => call[r] \in Calls
  /\ pc[r] \in {"getScenario", "insert"} => call[r].kind = "create" /\ safeguard = None
  /\ pc[r] = "insert" => Registration(copy[r])
  /\ pc[r] \in {"preview", "read"} => call[r].kind # "create"
  /\ pc[r] \in {"edit", "expire"} =>
       /\ safeguard # None /\ seen[r] \in Rows /\ copy[r] \in Rows
       /\ copy[r].state # seen[r].state =>
            seen[r].state = "active" /\ copy[r].state = "expired"
  /\ pc[r] = "expire" => copy[r].state # seen[r].state
  /\ pc[r] \in {"set", "reload"} =>
       safeguard # None /\ seen[r] \in Rows /\ call[r].kind \in MoveKinds
  /\ pc[r] = "audit" => copy[r] \in Rows
  /\ target[r] \in {"pending", "active"}
  /\ target[r] = "active" => safeguard # None /\ Verified(safeguard)

Ready == \A r \in Requests : ReadyAt(r)

Creates(q) == call[q] # None /\ call[q].kind = "create"

OneCreator == \A q, r \in Requests : Creates(q) /\ Creates(r) => q = r

Inv == TypeOK /\ Ready /\ OneCreator /\ ActiveHasEvidence

-----------------------------------------------------------------------------
(* Helpers.                                                                *)

\* The fields of a row have the types Rows gives them.
LEMMA RowFields ==
  ASSUME NEW x \in Rows
  PROVE  /\ x.state \in LifecycleStates /\ x.interval \in Intervals
         /\ x.verifiedAt \in Times \cup {None} /\ x.verifiedBy \in Users \cup {None}
         /\ x.note \in Notes /\ x # None
         /\ x = Row(x.state, x.interval, x.verifiedAt, x.verifiedBy, x.note)
BY ConstantsAssumption DEF Rows, Row

\* A record with fields of these types is a row.
LEMMA RowTyped ==
  ASSUME NEW s \in LifecycleStates, NEW i \in Intervals, NEW t \in Times \cup {None},
         NEW u \in Users \cup {None}, NEW n \in Notes
  PROVE  /\ Row(s, i, t, u, n) \in Rows
         /\ Row(s, i, t, u, n).state = s /\ Row(s, i, t, u, n).interval = i
         /\ Row(s, i, t, u, n).verifiedAt = t /\ Row(s, i, t, u, n).verifiedBy = u
         /\ Row(s, i, t, u, n).note = n
BY DEF Rows, Row

\* The fields of a call have the types Calls gives them.
LEMMA CallFields ==
  ASSUME NEW c \in Calls
  PROVE  /\ c # None /\ c.actor \in Users
         /\ c.kind \in {"create", "update"} \cup MoveKinds
         /\ c.kind = "create" => c.interval \in Intervals
                                 /\ c.verifiedAt \in Times \cup {None}
         /\ c.kind = "update" => c.interval \in Intervals \cup {None}
         /\ c.kind = "verify" => c.verifiedAt \in Times
<1>1. c # None
  BY ConstantsAssumption
<1>2. CASE c \in CreateCalls
  BY <1>1, <1>2 DEF CreateCalls, MoveKinds
<1>3. CASE c \in UpdateCalls
  BY <1>1, <1>3 DEF UpdateCalls, MoveKinds
<1>4. CASE c \in VerifyCalls
  BY <1>1, <1>4 DEF VerifyCalls, MoveKinds
<1>5. CASE c \in ActionCalls
  BY <1>1, <1>5 DEF ActionCalls, MoveKinds
<1> QED BY <1>2, <1>3, <1>4, <1>5 DEF Calls

\* Moving a request on keeps pc and answer in their sets.
LEMMA GotoTyped ==
  ASSUME TypeOK, NEW r \in Requests, NEW st \in Statements, Goto(r, st)
  PROVE  /\ pc' \in [Requests -> Statements \cup {"idle", "done"}]
         /\ answer' \in [Requests -> Statuses]
         /\ pc'[r] = st
         /\ \A q \in Requests : q # r => pc'[q] = pc[q]
BY DEF TypeOK, Goto

LEMMA ReplyTyped ==
  ASSUME TypeOK, NEW r \in Requests, NEW st \in Statuses, Reply(r, st)
  PROVE  /\ pc' \in [Requests -> Statements \cup {"idle", "done"}]
         /\ answer' \in [Requests -> Statuses]
         /\ pc'[r] = "done"
         /\ \A q \in Requests : q # r => pc'[q] = pc[q]
BY DEF TypeOK, Reply

\* The seeded rows are rows with evidence.
LEMMA PersistedRows ==
  \A x \in Persisted : x \in Rows /\ Verified(x) /\ x.state = "active"
<1> SUFFICES ASSUME NEW i \in Intervals
             PROVE  LET x == Row("active", i, 0, SeedReviewer, {})
                    IN  x \in Rows /\ Verified(x) /\ x.state = "active"
  BY DEF Persisted, Row
<1>1. 0 \in Times /\ SeedReviewer \in Users /\ {} \in Notes /\ "active" \in LifecycleStates
  BY ConstantsAssumption DEF Times, Notes, LifecycleStates
<1>2. 0 # None /\ SeedReviewer # None
  BY <1>1, ConstantsAssumption
<1> QED BY <1>1, <1>2, RowTyped DEF Verified

\* The initial states satisfy the invariant.
LEMMA InitInv == Init => Inv
<1> SUFFICES ASSUME Init PROVE Inv
  OBVIOUS
<1>1. safeguard \in Rows \cup {None} /\ (safeguard # None => Verified(safeguard))
  BY PersistedRows DEF Init
<1>2. TypeOK
  BY <1>1, ConstantsAssumption DEF Init, TypeOK, Times, LifecycleStates, Statuses
<1>3. Ready
  BY DEF Init, Ready, ReadyAt, Statements
<1>4. OneCreator
  BY DEF Init, OneCreator, Creates
<1>5. ActiveHasEvidence
  BY <1>1 DEF ActiveHasEvidence, Verified
<1> QED BY <1>2, <1>3, <1>4, <1>5 DEF Inv

-----------------------------------------------------------------------------
(* One step.                                                               *)

\* The locals of request q are left alone.
Untouched(q) ==
  /\ pc'[q] = pc[q] /\ call'[q] = call[q] /\ seen'[q] = seen[q] /\ copy'[q] = copy[q]
  /\ target'[q] = target[q]

\* No step takes the safeguard or its evidence away.
Lasting ==
  safeguard # None => /\ safeguard' # None
                      /\ Verified(safeguard) => Verified(safeguard')

LEMMA UntouchedReady ==
  ASSUME NEW q \in Requests, ReadyAt(q), Untouched(q), Lasting,
         pc[q] \in {"getScenario", "insert"} => safeguard' = safeguard
  PROVE  ReadyAt(q)'
BY DEF ReadyAt, Untouched, Lasting, Registration, Verified

\* A step that leaves the calls alone adds no creator.
LEMMA SameCreators == OneCreator /\ call' = call => OneCreator'
BY DEF OneCreator, Creates

\* Everything but the safeguard stays: what a step must still show.
LEMMA SameSafeguard ==
  ASSUME Inv, safeguard' = safeguard
  PROVE  ActiveHasEvidence' /\ Lasting /\ safeguard' \in Rows \cup {None}
BY DEF Inv, ActiveHasEvidence, Lasting, TypeOK, Verified

\* The step of request r preserves the invariant if it does so for r.
LEMMA OneStep ==
  ASSUME Inv, NEW r \in Requests, TypeOK', ReadyAt(r)', OneCreator', ActiveHasEvidence',
         Lasting, \A q \in Requests : q # r => Untouched(q),
         \A q \in Requests :
           q # r /\ pc[q] \in {"getScenario", "insert"} => safeguard' = safeguard
  PROVE  Inv'
<1>1. ASSUME NEW q \in Requests, q # r PROVE ReadyAt(q)'
  <2>1. ReadyAt(q)
    BY DEF Inv, Ready
  <2> QED BY <1>1, <2>1, UntouchedReady
<1>2. Ready'
  BY <1>1 DEF Ready
<1> QED BY <1>2 DEF Inv

LEMMA ReceiveStep ==
  ASSUME Inv, NEW r \in Requests, Receive(r) PROVE Inv'
<1> USE DEF Inv
<1>1. PICK c \in Traffic :
        /\ c.kind = "create" =>
             safeguard = None /\ \A q \in Requests : call[q] # None => call[q].kind # "create"
        /\ call' = [call EXCEPT ![r] = c]
        /\ IF HasPermission(RoleOf[c.actor], "safeguard:write")
           THEN Goto(r, FirstStatement(c.kind)) ELSE Reply(r, "forbidden")
  BY DEF Receive
<1>2. /\ pc[r] = "idle"
      /\ UNCHANGED <<safeguard, audits, now, seen, copy, target, faults>>
  BY DEF Receive
<1>3. c \in Calls
  BY ConstantsAssumption
<1>4. FirstStatement(c.kind) \in {"getScenario", "preview", "read"}
  BY DEF FirstStatement
<1>5. /\ pc' \in [Requests -> Statements \cup {"idle", "done"}]
      /\ answer' \in [Requests -> Statuses]
      /\ pc'[r] \in {"done", FirstStatement(c.kind)}
      /\ \A q \in Requests : q # r => pc'[q] = pc[q]
  <2>1. CASE Goto(r, FirstStatement(c.kind))
    <3>1. FirstStatement(c.kind) \in Statements
      BY <1>4 DEF Statements
    <3> QED BY <2>1, <3>1, GotoTyped
  <2>2. CASE Reply(r, "forbidden")
    BY <2>2, ReplyTyped DEF Statuses
  <2> QED BY <1>1, <2>1, <2>2
<1>6. call' \in [Requests -> Calls \cup {None}] /\ call'[r] = c
        /\ \A q \in Requests : q # r => call'[q] = call[q]
  BY <1>1, <1>3 DEF TypeOK
<1>7. TypeOK'
  BY <1>2, <1>5, <1>6 DEF TypeOK
<1>8. ReadyAt(r)'
  <2>1. ReadyAt(r)
    BY DEF Ready
  <2>2. c.kind = "create" => safeguard' = None
    BY <1>1, <1>2
  <2>3. pc'[r] = "done" \/ (pc'[r] \in {"preview", "read"} /\ c.kind # "create")
          \/ (pc'[r] = "getScenario" /\ c.kind = "create")
    BY <1>5 DEF FirstStatement
  <2> QED BY <1>2, <1>3, <1>6, <2>1, <2>2, <2>3 DEF ReadyAt, Statements, Verified
<1>9. OneCreator'
  BY <1>1, <1>6 DEF OneCreator, Creates
<1>10. ActiveHasEvidence' /\ Lasting
  BY <1>2, SameSafeguard
<1>11. \A q \in Requests : q # r => Untouched(q)
  BY <1>2, <1>5, <1>6 DEF Untouched
<1> QED BY <1>2, <1>7, <1>8, <1>9, <1>10, <1>11, OneStep

LEMMA GetScenarioStep ==
  ASSUME Inv, NEW r \in Requests, GetScenario(r) PROVE Inv'
<1> USE DEF Inv
<1>1. pc[r] = "getScenario" /\ UNCHANGED <<safeguard, audits, now, call, seen, target, faults>>
  BY DEF GetScenario
<1>2. ReadyAt(r) /\ call[r] \in Calls /\ call[r].kind = "create" /\ safeguard = None
  BY <1>1 DEF Ready, ReadyAt, Statements
<1>3. call[r].interval \in Intervals /\ call[r].verifiedAt \in Times \cup {None}
        /\ call[r].actor \in Users
  BY <1>2, CallFields
<1> DEFINE c == call[r]
           x == Row(StateOnCreate(c), c.interval, c.verifiedAt,
                    IF c.verifiedAt = None THEN None ELSE c.actor, {r})
<1>4. CASE (Reply(r, "notFound") \/ Reply(r, "unprocessable")) /\ copy' = copy
  <2>1. pc' \in [Requests -> Statements \cup {"idle", "done"}]
          /\ answer' \in [Requests -> Statuses] /\ pc'[r] = "done"
          /\ \A q \in Requests : q # r => pc'[q] = pc[q]
    BY <1>4, ReplyTyped DEF Statuses
  <2>2. TypeOK'
    BY <1>1, <1>4, <2>1 DEF TypeOK
  <2>3. ReadyAt(r)'
    BY <1>1, <1>2, <1>4, <2>1 DEF ReadyAt, Statements, Verified
  <2>4. \A q \in Requests : q # r => Untouched(q)
    BY <1>1, <1>4, <2>1 DEF Untouched
  <2> QED BY <1>1, <2>2, <2>3, <2>4, SameSafeguard, SameCreators, OneStep
<1>5. CASE Goto(r, "insert") /\ copy' = [copy EXCEPT ![r] = x]
  <2>2. Registration(x)
    <3>1. {r} \in Notes
      BY DEF Notes
    <3> DEFINE st == StateOnCreate(c)
               u == IF c.verifiedAt = None THEN None ELSE c.actor
    <3>2. st = (IF c.verifiedAt = None THEN "pending" ELSE st)
            /\ (c.verifiedAt # None => st \in {"active", "expired"})
      BY DEF StateOnCreate
    <3>3. c.actor # None
      BY <1>3, ConstantsAssumption
    <3>4. st \in LifecycleStates /\ u \in Users \cup {None}
            /\ c.interval \in Intervals /\ c.verifiedAt \in Times \cup {None}
      BY <1>3, <3>2 DEF LifecycleStates
    <3>5. u # None <=> c.verifiedAt # None
      BY <3>3
    <3>6. x = Row(st, c.interval, c.verifiedAt, u, {r})
      OBVIOUS
    <3> HIDE DEF st, u, c, x
    <3>7. x \in Rows /\ x.state = st /\ x.verifiedAt = c.verifiedAt /\ x.verifiedBy = u
      BY <3>1, <3>4, <3>6 DEF Row, Rows
    <3>8. CASE c.verifiedAt = None
      BY <3>2, <3>5, <3>7, <3>8 DEF Registration
    <3>9. CASE c.verifiedAt # None
      BY <3>2, <3>5, <3>7, <3>9 DEF Registration, Verified
    <3> QED BY <3>8, <3>9
  <2> HIDE DEF x
  <2>3. pc' \in [Requests -> Statements \cup {"idle", "done"}]
          /\ answer' \in [Requests -> Statuses] /\ pc'[r] = "insert"
          /\ \A q \in Requests : q # r => pc'[q] = pc[q]
    BY <1>5, GotoTyped DEF Statements
  <2>4. copy' \in [Requests -> Rows \cup {None}] /\ copy'[r] = x
          /\ \A q \in Requests : q # r => copy'[q] = copy[q]
    BY <1>5, <2>2 DEF TypeOK, Registration
  <2>5. TypeOK'
    BY <1>1, <2>3, <2>4 DEF TypeOK
  <2>6. ReadyAt(r)'
    BY <1>1, <1>2, <2>2, <2>3, <2>4 DEF ReadyAt, Statements, Verified, Registration
  <2>7. \A q \in Requests : q # r => Untouched(q)
    BY <1>1, <2>3, <2>4 DEF Untouched
  <2> QED BY <1>1, <2>5, <2>6, <2>7, SameSafeguard, SameCreators, OneStep
<1> QED BY <1>4, <1>5 DEF GetScenario, Row

LEMMA InsertStep ==
  ASSUME Inv, NEW r \in Requests, Insert(r) PROVE Inv'
<1> USE DEF Inv
<1>1. /\ pc[r] = "insert" /\ safeguard' = copy[r] /\ Goto(r, "audit")
      /\ UNCHANGED <<audits, now, locals, faults>>
  BY DEF Insert
<1>2. ReadyAt(r) /\ call[r] \in Calls /\ call[r].kind = "create" /\ safeguard = None
        /\ Registration(copy[r])
  BY <1>1 DEF Ready, ReadyAt, Statements
<1>3. copy[r] \in Rows /\ copy[r] # None
  BY <1>2, RowFields DEF Registration
<1>4. pc' \in [Requests -> Statements \cup {"idle", "done"}]
        /\ answer' \in [Requests -> Statuses] /\ pc'[r] = "audit"
        /\ \A q \in Requests : q # r => pc'[q] = pc[q]
  BY <1>1, GotoTyped DEF Statements
<1>5. TypeOK'
  BY <1>1, <1>3, <1>4 DEF TypeOK, locals
<1>6. ReadyAt(r)'
  BY <1>1, <1>2, <1>3, <1>4 DEF ReadyAt, Statements, locals
<1>7. ActiveHasEvidence'
  BY <1>1, <1>2 DEF ActiveHasEvidence, Registration, Verified
<1>8. \A q \in Requests : q # r => Untouched(q)
  BY <1>1, <1>4 DEF Untouched, locals
<1>9. ASSUME NEW q \in Requests, q # r PROVE pc[q] \notin {"getScenario", "insert"}
  <2>1. pc[q] \in {"getScenario", "insert"} => call[q] \in Calls /\ call[q].kind = "create"
    BY DEF Ready, ReadyAt, Statements
  <2>2. call[r] # None /\ (call[q] \in Calls => call[q] # None)
    BY <1>2, CallFields
  <2> QED BY <1>2, <1>9, <2>1, <2>2 DEF OneCreator, Creates
<1>10. OneCreator' /\ Lasting
  BY <1>1, <1>2, SameCreators DEF Lasting, locals
<1> QED BY <1>5, <1>6, <1>7, <1>8, <1>9, <1>10, OneStep

LEMMA PreviewRestoreStep ==
  ASSUME Inv, NEW r \in Requests, PreviewRestore(r) PROVE Inv'
<1> USE DEF Inv
<1>1. pc[r] = "preview" /\ UNCHANGED <<safeguard, audits, now, call, seen, copy, faults>>
  BY DEF PreviewRestore
<1>2. ReadyAt(r) /\ call[r] \in Calls /\ call[r].kind # "create"
  BY <1>1 DEF Ready, ReadyAt, Statements
<1>3. pc' \in [Requests -> Statements \cup {"idle", "done"}]
        /\ answer' \in [Requests -> Statuses]
        /\ (pc'[r] = "done" \/ (pc'[r] = "read" /\ safeguard # None))
        /\ \A q \in Requests : q # r => pc'[q] = pc[q]
  <2>1. CASE safeguard = None
    BY <2>1, ReplyTyped DEF PreviewRestore, Statuses
  <2>2. CASE safeguard # None
    BY <2>2, GotoTyped DEF PreviewRestore, Statements
  <2> QED BY <2>1, <2>2
<1>4. /\ target' \in [Requests -> LifecycleStates]
      /\ \A q \in Requests : q # r => target'[q] = target[q]
      /\ target'[r] \in {"pending", "active"}
      /\ target'[r] = "active" => safeguard # None /\ Verified(safeguard)
  <2>1. CASE safeguard = None
    BY <1>2, <2>1 DEF PreviewRestore, TypeOK, ReadyAt
  <2>2. CASE safeguard # None
    <3>1. target' = [target EXCEPT ![r] =
                       IF IsEffective(safeguard) THEN "active" ELSE "pending"]
      BY <2>2 DEF PreviewRestore
    <3>2. IsEffective(safeguard) => Verified(safeguard)
      BY <2>2 DEF IsEffective, ActiveHasEvidence, Verified
    <3> QED BY <2>2, <3>1, <3>2 DEF TypeOK, LifecycleStates
  <2> QED BY <2>1, <2>2
<1>5. TypeOK'
  BY <1>1, <1>3, <1>4 DEF TypeOK
<1>6. ReadyAt(r)'
  BY <1>1, <1>2, <1>3, <1>4 DEF ReadyAt, Statements, Verified
<1>7. \A q \in Requests : q # r => Untouched(q)
  BY <1>1, <1>3, <1>4 DEF Untouched
<1> QED BY <1>1, <1>5, <1>6, <1>7, SameSafeguard, SameCreators, OneStep

\* What Update writes is a row of the same safeguard, still in its state or expired.
LEMMA EditedIsRow ==
  ASSUME NEW r \in Requests, NEW x \in Rows, call[r] \in Calls, call[r].kind = "update"
  PROVE  /\ Edited(r, x) \in Rows
         /\ Edited(r, x).state # x.state =>
              x.state = "active" /\ Edited(r, x).state = "expired"
<1>1. call[r].interval \in Intervals \cup {None}
  BY CallFields
<1>2. /\ x.state \in LifecycleStates /\ x.interval \in Intervals /\ x.note \in Notes
      /\ x.verifiedAt \in Times \cup {None} /\ x.verifiedBy \in Users \cup {None}
  BY RowFields
<1> DEFINE i == IF call[r].interval = None THEN x.interval ELSE call[r].interval
           st == IF x.verifiedAt # None /\ x.state = "active" /\ Expired(x.verifiedAt, i)
                 THEN "expired" ELSE x.state
           n == IF call[r].note THEN {r} ELSE x.note
<1>3. i \in Intervals /\ n \in Notes /\ st \in LifecycleStates
  BY <1>1, <1>2 DEF Notes, LifecycleStates
<1>4. st # x.state => x.state = "active" /\ st = "expired"
  OBVIOUS
<1>5. Edited(r, x) = [state |-> st, interval |-> i, verifiedAt |-> x.verifiedAt,
                      verifiedBy |-> x.verifiedBy, note |-> n]
  BY DEF Edited
<1> HIDE DEF i, st, n
<1> QED BY <1>2, <1>3, <1>4, <1>5 DEF Rows

LEMMA ReadStep ==
  ASSUME Inv, NEW r \in Requests, Read(r) PROVE Inv'
<1> USE DEF Inv
<1>1. pc[r] = "read" /\ UNCHANGED <<safeguard, audits, now, call, target, faults>>
  BY DEF Read
<1>2. ReadyAt(r) /\ call[r] \in Calls /\ call[r].kind # "create"
  BY <1>1 DEF Ready, ReadyAt, Statements
<1>3. call[r].kind \in {"update"} \cup MoveKinds
  BY <1>2, CallFields
<1> DEFINE Moves(s, c) ==
      /\ pc' \in [Requests -> Statements \cup {"idle", "done"}]
      /\ answer' \in [Requests -> Statuses]
      /\ \A q \in Requests : q # r => pc'[q] = pc[q]
      /\ seen' = s /\ s \in [Requests -> Rows \cup {None}]
      /\ \A q \in Requests : q # r => s[q] = seen[q]
      /\ copy' = c /\ c \in [Requests -> Rows \cup {None}]
      /\ \A q \in Requests : q # r => c[q] = copy[q]
<1>4. ASSUME Moves(seen', copy'), ReadyAt(r)' PROVE Inv'
  <2>1. TypeOK'
    BY <1>1, <1>4 DEF TypeOK
  <2>2. \A q \in Requests : q # r => Untouched(q)
    BY <1>1, <1>4 DEF Untouched
  <2> QED BY <1>1, <1>4, <2>1, <2>2, SameSafeguard, SameCreators, OneStep
<1>5. CASE safeguard = None
  <2>1. Reply(r, "notFound") /\ UNCHANGED <<seen, copy>>
    BY <1>5 DEF Read
  <2>2. Moves(seen', copy') /\ pc'[r] = "done"
    BY <2>1, ReplyTyped DEF Statuses, TypeOK
  <2>3. ReadyAt(r)'
    BY <1>1, <1>2, <2>1, <2>2 DEF ReadyAt, Statements, Verified
  <2> QED BY <1>4, <2>2, <2>3
<1>6. CASE safeguard # None
  <2>1. safeguard \in Rows /\ seen' = [seen EXCEPT ![r] = safeguard]
    BY <1>6 DEF Read, TypeOK
  <2>2. seen' \in [Requests -> Rows \cup {None}] /\ seen'[r] = safeguard
          /\ \A q \in Requests : q # r => seen'[q] = seen[q]
    BY <2>1 DEF TypeOK
  <2>3. CASE call[r].kind = "update"
    <3>1. copy' = [copy EXCEPT ![r] = Edited(r, safeguard)] /\ Goto(r, "edit")
      BY <1>6, <2>3 DEF Read
    <3>2. Edited(r, safeguard) \in Rows
            /\ (Edited(r, safeguard).state # safeguard.state =>
                   safeguard.state = "active" /\ Edited(r, safeguard).state = "expired")
      BY <1>2, <2>1, <2>3, EditedIsRow
    <3>3. copy' \in [Requests -> Rows \cup {None}] /\ copy'[r] = Edited(r, safeguard)
            /\ \A q \in Requests : q # r => copy'[q] = copy[q]
      BY <3>1, <3>2 DEF TypeOK
    <3>4. Moves(seen', copy') /\ pc'[r] = "edit"
      BY <2>2, <3>1, <3>3, GotoTyped DEF Statements
    <3>5. ReadyAt(r)'
      BY <1>1, <1>2, <1>6, <2>1, <2>2, <3>2, <3>3, <3>4 DEF ReadyAt, Statements, Verified
    <3> QED BY <1>4, <3>4, <3>5
  <2>4. CASE call[r].kind # "update"
    <3>1. copy' = copy /\ (Goto(r, "set") \/ Reply(r, "unprocessable"))
      BY <1>6, <2>4 DEF Read
    <3>2. pc' \in [Requests -> Statements \cup {"idle", "done"}]
            /\ answer' \in [Requests -> Statuses] /\ pc'[r] \in {"set", "done"}
            /\ \A q \in Requests : q # r => pc'[q] = pc[q]
      BY <3>1, GotoTyped, ReplyTyped DEF Statements, Statuses
    <3>3. Moves(seen', copy')
      BY <2>2, <3>1, <3>2 DEF TypeOK
    <3>4. ReadyAt(r)'
      BY <1>1, <1>2, <1>3, <1>6, <2>1, <2>2, <2>4, <3>1, <3>2
      DEF ReadyAt, Statements, Verified
    <3> QED BY <1>4, <3>3, <3>4
  <2> QED BY <2>3, <2>4
<1> QED BY <1>5, <1>6

\* A statement that replaces the row preserves the invariant if it keeps the evidence
\* and the new state is covered by it.
LEMMA WriteStep ==
  ASSUME Inv, NEW r \in Requests, NEW x \in Rows, safeguard # None, safeguard' = x,
         Verified(safeguard) => Verified(x),
         x.state \in {"active", "expired"} => Verified(x),
         NEW st \in {"expire", "reload", "audit"}, Goto(r, st), st = "audit" => copy[r] \in Rows,
         st = "expire" => pc[r] = "edit" /\ copy[r].state # seen[r].state,
         st = "reload" => pc[r] = "set",
         pc[r] \in Statements,
         UNCHANGED <<audits, now, call, seen, copy, target, faults>>
  PROVE  Inv'
<1> USE DEF Inv
<1>1. ReadyAt(r)
  BY DEF Ready
<1>2. pc' \in [Requests -> Statements \cup {"idle", "done"}]
        /\ answer' \in [Requests -> Statuses] /\ pc'[r] = st
        /\ \A q \in Requests : q # r => pc'[q] = pc[q]
  BY GotoTyped DEF Statements
<1>3. TypeOK'
  BY <1>2 DEF TypeOK
<1>4. x # None
  BY RowFields
<1>5. Lasting /\ ActiveHasEvidence' /\ OneCreator'
  BY <1>4, SameCreators DEF Lasting, ActiveHasEvidence, Verified
<1>6. ReadyAt(r)'
  <2>1. target'[r] = "active" => Verified(safeguard')
    BY <1>1 DEF ReadyAt
  <2>2. CASE st = "expire"
    BY <1>1, <1>2, <1>4, <2>1, <2>2 DEF ReadyAt, Statements, Verified
  <2>3. CASE st = "reload"
    BY <1>1, <1>2, <1>4, <2>1, <2>3 DEF ReadyAt, Statements, Verified
  <2>4. CASE st = "audit"
    BY <1>1, <1>2, <1>4, <2>1, <2>4 DEF ReadyAt, Statements, Verified
  <2> QED BY <2>2, <2>3, <2>4
<1>7. \A q \in Requests : q # r => Untouched(q)
  BY <1>2 DEF Untouched
<1>8. \A q \in Requests : pc[q] \notin {"getScenario", "insert"}
  BY DEF Ready, ReadyAt
<1> QED BY <1>3, <1>5, <1>6, <1>7, <1>8, OneStep

\* What each statement that writes an existing safeguard puts in its place.
LEMMA EditWrites ==
  ASSUME Inv, NEW r \in Requests, Edit(r)
  PROVE  /\ safeguard \in Rows /\ safeguard # None /\ copy[r] \in Rows
         /\ safeguard' = Row(safeguard.state, copy[r].interval, safeguard.verifiedAt,
                             safeguard.verifiedBy, copy[r].note)
         /\ safeguard' \in Rows
         /\ safeguard'.state = safeguard.state
         /\ Evidence(safeguard') = Evidence(safeguard)
<1> USE DEF Inv
<1>1. safeguard \in Rows /\ safeguard # None /\ copy[r] \in Rows
  BY DEF Edit, Ready, ReadyAt, TypeOK
<1>2. safeguard' = Row(safeguard.state, copy[r].interval, safeguard.verifiedAt,
                       safeguard.verifiedBy, copy[r].note)
  BY DEF Edit, Row
<1>3. safeguard.state \in LifecycleStates /\ copy[r].interval \in Intervals
        /\ safeguard.verifiedAt \in Times \cup {None}
        /\ safeguard.verifiedBy \in Users \cup {None} /\ copy[r].note \in Notes
  BY <1>1, RowFields
<1> QED BY <1>1, <1>2, <1>3 DEF Row, Rows, Evidence

LEMMA SynchronizeWrites ==
  ASSUME Inv, NEW r \in Requests, Synchronize(r), safeguard' # safeguard
  PROVE  /\ safeguard \in Rows /\ safeguard # None /\ safeguard.state = "active"
         /\ safeguard' = Row("expired", safeguard.interval, safeguard.verifiedAt,
                             safeguard.verifiedBy, safeguard.note)
         /\ safeguard' \in Rows
         /\ safeguard'.state = "expired"
         /\ Evidence(safeguard') = Evidence(safeguard)
<1> USE DEF Inv
<1>1. safeguard \in Rows /\ safeguard # None /\ copy[r] \in Rows
        /\ seen[r].state = "active" /\ copy[r].state = "expired"
  BY DEF Synchronize, Ready, ReadyAt, TypeOK
<1>2. safeguard.state = "active"
        /\ safeguard' = Row("expired", safeguard.interval, safeguard.verifiedAt,
                            safeguard.verifiedBy, safeguard.note)
  BY <1>1 DEF Synchronize, Row
<1>3. safeguard.interval \in Intervals /\ safeguard.verifiedAt \in Times \cup {None}
        /\ safeguard.verifiedBy \in Users \cup {None} /\ safeguard.note \in Notes
        /\ "expired" \in LifecycleStates
  BY <1>1, RowFields DEF LifecycleStates
<1> QED BY <1>1, <1>2, <1>3 DEF Row, Rows, Evidence

LEMMA SetWrites ==
  ASSUME Inv, NEW r \in Requests, SetLifecycle(r), safeguard.state \in FromStates(call[r].kind)
  PROVE  /\ pc[r] = "set" /\ safeguard \in Rows /\ safeguard # None /\ seen[r] \in Rows
         /\ call[r] \in Calls /\ call[r].kind \in MoveKinds
         /\ safeguard' = Moved(r) /\ safeguard' \in Rows
         /\ safeguard'.state = ToState(r) /\ safeguard'.interval = safeguard.interval
         /\ call[r].kind = "verify" =>
              /\ safeguard'.verifiedAt = call[r].verifiedAt
              /\ safeguard'.verifiedBy = call[r].actor
              /\ safeguard'.verifiedAt \in Times /\ safeguard'.verifiedBy \in Users
         /\ call[r].kind # "verify" => Evidence(safeguard') = Evidence(safeguard)
         /\ call[r].kind = "restore" /\ ToState(r) = "active" => Verified(safeguard)
<1> USE DEF Inv
<1>1. pc[r] = "set" /\ safeguard \in Rows /\ safeguard # None /\ seen[r] \in Rows
        /\ call[r] \in Calls /\ call[r].kind \in MoveKinds /\ ReadyAt(r)
  BY DEF SetLifecycle, Ready, ReadyAt, TypeOK, Statements
<1>2. safeguard' = Moved(r)
  BY DEF SetLifecycle
<1>3. call[r].actor \in Users /\ (call[r].kind = "verify" => call[r].verifiedAt \in Times)
  BY <1>1, CallFields
<1>4. safeguard.interval \in Intervals /\ safeguard.verifiedAt \in Times \cup {None}
        /\ safeguard.verifiedBy \in Users \cup {None} /\ seen[r].note \in Notes
  BY <1>1, RowFields
<1>5. ToState(r) \in LifecycleStates
        /\ (call[r].kind = "restore" /\ ToState(r) = "active" => Verified(safeguard))
  BY <1>1 DEF ToState, ReadyAt, LifecycleStates
<1> DEFINE verifies == call[r].kind = "verify"
           t == IF verifies THEN call[r].verifiedAt ELSE safeguard.verifiedAt
           u == IF verifies THEN call[r].actor ELSE safeguard.verifiedBy
           n == IF verifies THEN {r} ELSE seen[r].note \cup {r}
<1>6. t \in Times \cup {None} /\ u \in Users \cup {None} /\ n \in Notes
  BY <1>3, <1>4 DEF Notes
<1>7. Moved(r) = [state |-> ToState(r), interval |-> safeguard.interval, verifiedAt |-> t,
                  verifiedBy |-> u, note |-> n]
  BY DEF Moved
<1>8. /\ verifies => t = call[r].verifiedAt /\ u = call[r].actor
      /\ ~verifies => t = safeguard.verifiedAt /\ u = safeguard.verifiedBy
  OBVIOUS
<1> HIDE DEF t, u, n
<1>9. /\ Moved(r) \in Rows /\ Moved(r).state = ToState(r)
      /\ Moved(r).interval = safeguard.interval
      /\ Moved(r).verifiedAt = t /\ Moved(r).verifiedBy = u
  BY <1>4, <1>5, <1>6, <1>7 DEF Rows
<1> QED BY <1>1, <1>2, <1>3, <1>5, <1>8, <1>9 DEF Evidence

LEMMA EditStep ==
  ASSUME Inv, NEW r \in Requests, Edit(r) PROVE Inv'
<1>1. /\ safeguard \in Rows /\ safeguard # None /\ copy[r] \in Rows /\ safeguard' \in Rows
      /\ safeguard'.state = safeguard.state /\ Evidence(safeguard') = Evidence(safeguard)
  BY EditWrites
<1>2. Verified(safeguard) => Verified(safeguard')
  BY <1>1 DEF Verified, Evidence
<1>3. safeguard'.state \in {"active", "expired"} => Verified(safeguard')
  BY <1>1, <1>2 DEF Inv, ActiveHasEvidence, Verified
<1>4. pc[r] = "edit" /\ pc[r] \in Statements
        /\ UNCHANGED <<audits, now, call, seen, copy, target, faults>>
  BY DEF Edit, Statements, locals
<1>5. CASE copy[r].state # seen[r].state
  BY <1>1, <1>2, <1>3, <1>4, <1>5, WriteStep DEF Edit
<1>6. CASE copy[r].state = seen[r].state
  BY <1>1, <1>2, <1>3, <1>4, <1>6, WriteStep DEF Edit
<1> QED BY <1>5, <1>6

LEMMA SynchronizeStep ==
  ASSUME Inv, NEW r \in Requests, Synchronize(r) PROVE Inv'
<1>1. /\ pc[r] = "expire" /\ pc[r] \in Statements /\ Goto(r, "audit")
      /\ safeguard \in Rows /\ safeguard # None /\ copy[r] \in Rows
      /\ UNCHANGED <<audits, now, call, seen, copy, target, faults>>
  BY DEF Synchronize, Statements, Inv, Ready, ReadyAt, TypeOK
<1>2. /\ safeguard' \in Rows /\ (Verified(safeguard) => Verified(safeguard'))
      /\ safeguard'.state \in {"active", "expired"} => Verified(safeguard')
  <2>1. safeguard.state \in {"active", "expired"} => Verified(safeguard)
    BY <1>1 DEF Inv, ActiveHasEvidence, Verified
  <2>2. CASE safeguard' = safeguard
    BY <1>1, <2>1, <2>2
  <2>3. CASE safeguard' # safeguard
    <3>1. safeguard' \in Rows /\ safeguard.state = "active"
            /\ Evidence(safeguard') = Evidence(safeguard)
      BY <2>3, SynchronizeWrites
    <3> QED BY <2>1, <3>1 DEF Evidence, Verified
  <2> QED BY <2>2, <2>3
<1> QED BY <1>1, <1>2, WriteStep

\* A step of r that only moves pc, answer and perhaps copy or audits.
LEMMA QuietStep ==
  ASSUME Inv, NEW r \in Requests, NEW st \in {"audit", "get", "done"},
         pc' \in [Requests -> Statements \cup {"idle", "done"}],
         answer' \in [Requests -> Statuses], pc'[r] = st,
         \A q \in Requests : q # r => pc'[q] = pc[q],
         st # "done" => call[r] \in Calls,
         copy' \in [Requests -> Rows \cup {None}],
         \A q \in Requests : q # r => copy'[q] = copy[q],
         st = "audit" => copy'[r] \in Rows,
         audits' \subseteq AuditRows, faults' \in 0..MaxFaults,
         UNCHANGED <<safeguard, now, call, seen, target>>
  PROVE  Inv'
<1> USE DEF Inv
<1>1. ReadyAt(r)
  BY DEF Ready
<1>2. TypeOK'
  BY DEF TypeOK
<1>3. ReadyAt(r)'
  BY <1>1 DEF ReadyAt, Statements, Verified
<1>4. \A q \in Requests : q # r => Untouched(q)
  BY DEF Untouched
<1> QED BY <1>2, <1>3, <1>4, SameSafeguard, SameCreators, OneStep

LEMMA SetLifecycleStep ==
  ASSUME Inv, NEW r \in Requests, SetLifecycle(r) PROVE Inv'
<1>1. /\ pc[r] = "set" /\ pc[r] \in Statements
      /\ UNCHANGED <<audits, now, call, seen, copy, target, faults>>
  BY DEF SetLifecycle, Statements
<1>2. CASE safeguard.state \in FromStates(call[r].kind)
  <2>1. Goto(r, "reload")
    BY <1>2 DEF SetLifecycle
  <2>2. /\ safeguard \in Rows /\ safeguard # None /\ safeguard' \in Rows
        /\ safeguard'.state = ToState(r) /\ call[r].kind \in MoveKinds
        /\ call[r].kind = "verify" =>
             safeguard'.verifiedAt \in Times /\ safeguard'.verifiedBy \in Users
        /\ call[r].kind # "verify" => Evidence(safeguard') = Evidence(safeguard)
        /\ call[r].kind = "restore" /\ ToState(r) = "active" => Verified(safeguard)
    BY <1>2, SetWrites
  <2>3. call[r].kind = "verify" => Verified(safeguard')
    BY <2>2, ConstantsAssumption DEF Verified
  <2>4. call[r].kind # "verify" => (Verified(safeguard) <=> Verified(safeguard'))
    BY <2>2 DEF Verified, Evidence
  <2>5. safeguard'.state \in {"active", "expired"} => Verified(safeguard')
    <3>1. call[r].kind # "verify" => target[r] \in {"pending", "active"}
      BY DEF Inv, Ready, ReadyAt
    <3> QED BY <2>2, <2>3, <2>4, <3>1 DEF ToState, MoveKinds
  <2> QED BY <1>1, <2>1, <2>2, <2>3, <2>4, <2>5, WriteStep
<1>3. CASE safeguard.state \notin FromStates(call[r].kind)
  <2>1. Reply(r, "stateTransition") /\ UNCHANGED safeguard
    BY <1>3 DEF SetLifecycle
  <2> QED BY <1>1, <2>1, ReplyTyped, QuietStep DEF Inv, TypeOK, Statuses
<1> QED BY <1>2, <1>3

LEMMA ReloadStep ==
  ASSUME Inv, NEW r \in Requests, Reload(r) PROVE Inv'
<1>1. /\ pc[r] = "reload" /\ safeguard \in Rows /\ call[r] \in Calls
      /\ Goto(r, "audit") /\ copy' = [copy EXCEPT ![r] = safeguard]
      /\ UNCHANGED <<safeguard, audits, now, call, seen, target, faults>>
  BY DEF Reload, Inv, Ready, ReadyAt, TypeOK, Statements
<1>2. copy' \in [Requests -> Rows \cup {None}] /\ copy'[r] \in Rows
        /\ \A q \in Requests : q # r => copy'[q] = copy[q]
  BY <1>1 DEF Inv, TypeOK
<1> QED BY <1>1, <1>2, GotoTyped, QuietStep DEF Inv, TypeOK, Statements

LEMMA RecordAuditStep ==
  ASSUME Inv, NEW r \in Requests, RecordAudit(r) PROVE Inv'
<1>1. /\ pc[r] = "audit" /\ copy[r] \in Rows /\ call[r] \in Calls
      /\ audits' = audits \cup {AuditEntry(r)}
      /\ UNCHANGED <<safeguard, now, call, seen, copy, target, faults>>
  BY DEF RecordAudit, Inv, Ready, ReadyAt, Statements, locals
<1>2. AuditEntry(r) \in AuditRows
  <2>1. call[r].kind \in {"create", "update", "verify", "invalidate", "restore"}
    BY <1>1, CallFields DEF MoveKinds
  <2>2. seen[r] \in Rows \cup {None}
    BY DEF Inv, TypeOK
  <2> QED BY <1>1, <2>1, <2>2 DEF AuditEntry, AuditRows
<1>3. audits' \subseteq AuditRows
  BY <1>1, <1>2 DEF Inv, TypeOK
<1>4. CASE Goto(r, "get")
  BY <1>1, <1>3, <1>4, GotoTyped, QuietStep DEF Inv, TypeOK, Statements
<1>5. CASE Reply(r, "ok")
  BY <1>1, <1>3, <1>5, ReplyTyped, QuietStep DEF Inv, TypeOK, Statuses
<1> QED BY <1>4, <1>5 DEF RecordAudit

LEMMA GetStep ==
  ASSUME Inv, NEW r \in Requests, Get(r) PROVE Inv'
<1>1. Reply(r, "ok") /\ UNCHANGED <<safeguard, audits, now, call, seen, copy, target, faults>>
  BY DEF Get, locals
<1> QED BY <1>1, ReplyTyped, QuietStep DEF Inv, TypeOK, Statuses

\* A fault is counted while the bound allows it.
LEMMA FaultCount ==
  ASSUME faults \in 0..MaxFaults, faults < MaxFaults, faults' = faults + 1
  PROVE  faults' \in 0..MaxFaults
BY ConstantsAssumption

LEMMA StatementFailsStep ==
  ASSUME Inv, NEW r \in Requests, StatementFails(r) PROVE Inv'
<1>1. Reply(r, "internal") /\ UNCHANGED <<safeguard, audits, now, call, seen, copy, target>>
  BY DEF StatementFails, locals
<1>2. faults' \in 0..MaxFaults
  BY FaultCount DEF StatementFails, Inv, TypeOK
<1> QED BY <1>1, <1>2, ReplyTyped, QuietStep DEF Inv, TypeOK, Statuses

LEMMA TickStep ==
  ASSUME Inv, Tick PROVE Inv'
<1> USE DEF Inv
<1>1. now' \in Times /\ UNCHANGED <<safeguard, audits, pc, call, seen, copy, target, answer, faults>>
  BY ConstantsAssumption DEF Tick, TypeOK, Times, locals
<1>2. TypeOK'
  BY <1>1 DEF TypeOK
<1>3. Ready'
  BY <1>1 DEF Ready, ReadyAt, Registration, Verified
<1> QED BY <1>1, <1>2, <1>3, SameSafeguard, SameCreators

LEMMA CrashStep ==
  ASSUME Inv, Crash PROVE Inv'
<1> USE DEF Inv
<1>1. UNCHANGED <<safeguard, audits, now, call, seen, copy, target>>
  BY DEF Crash, locals
<1>2. faults' \in 0..MaxFaults
  BY FaultCount DEF Crash, TypeOK
<1>3. pc' \in [Requests -> Statements \cup {"idle", "done"}]
        /\ answer' \in [Requests -> Statuses]
        /\ \A r \in Requests : pc'[r] \notin Statements
  BY DEF Crash, TypeOK, Statuses, Statements
<1>4. TypeOK'
  BY <1>1, <1>2, <1>3 DEF TypeOK
<1>5. Ready'
  BY <1>1, <1>3 DEF Ready, ReadyAt, Statements, Verified
<1> QED BY <1>1, <1>4, <1>5, SameSafeguard, SameCreators

LEMMA StutterStep ==
  ASSUME Inv, UNCHANGED vars PROVE Inv'
<1> USE DEF Inv
<1>1. UNCHANGED <<safeguard, audits, now, pc, call, seen, copy, target, answer, faults>>
  BY DEF vars, locals
<1>2. Ready'
  BY <1>1 DEF Ready, ReadyAt, Registration, Verified
<1> QED BY <1>1, <1>2, SameSafeguard, SameCreators DEF TypeOK

\* Every step preserves the invariant.
LEMMA NextInv == Inv /\ [Next]_vars => Inv'
<1> SUFFICES ASSUME Inv, [Next]_vars PROVE Inv'
  OBVIOUS
<1>1. ASSUME NEW r \in Requests, Step(r) PROVE Inv'
  BY <1>1, ReceiveStep, GetScenarioStep, InsertStep, PreviewRestoreStep, ReadStep, EditStep,
     SynchronizeStep, SetLifecycleStep, ReloadStep, RecordAuditStep, GetStep,
     StatementFailsStep
  DEF Step
<1>2. CASE Quiescent
  BY <1>2, StutterStep DEF Quiescent
<1> QED BY <1>1, <1>2, TickStep, CrashStep, StutterStep DEF Next

LEMMA Inductive == Spec => []Inv
<1>1. Init => Inv
  BY InitInv
<1>2. Inv /\ [Next]_vars => Inv'
  BY NextInv
<1> QED BY <1>1, <1>2, PTL DEF Spec

-----------------------------------------------------------------------------
(* The theorems.                                                           *)

\* The types hold in all reachable states.
THEOREM TypeCorrect == Spec => []TypeOK
<1>1. Inv => TypeOK
  BY DEF Inv
<1> QED BY <1>1, Inductive, PTL

\* However the calls interleave, fail and crash, the safeguard is active or expired only
\* with the date and author of a verification (Create, Update, Verify and the two reads
\* of Restore).
THEOREM Evidenced == Spec => []ActiveHasEvidence
<1>1. Inv => ActiveHasEvidence
  BY DEF Inv
<1> QED BY <1>1, Inductive, PTL

\* The steps that change an existing safeguard.
LEMMA Writers ==
  ASSUME Inv, [Next]_vars, safeguard' # safeguard
  PROVE  \E r \in Requests :
           \/ Insert(r) /\ safeguard = None
           \/ Edit(r) \/ Synchronize(r)
           \/ SetLifecycle(r) /\ safeguard.state \in FromStates(call[r].kind)
<1>1. PICK r \in Requests : Insert(r) \/ Edit(r) \/ Synchronize(r) \/ SetLifecycle(r)
  BY DEF Next, Step, Receive, GetScenario, PreviewRestore, Read, Reload, RecordAudit, Get,
         StatementFails, Crash, Tick, Quiescent, vars
<1>2. Insert(r) => safeguard = None
  BY DEF Insert, Inv, Ready, ReadyAt
<1>3. SetLifecycle(r) => safeguard.state \in FromStates(call[r].kind)
  BY DEF SetLifecycle
<1> QED BY <1>1, <1>2, <1>3

\* Only a verification or a restoration brings an invalidated safeguard back, and only a
\* verification replaces evidence, also against updates that work on an older copy.
THEOREM Guarded == Spec => LifecycleIsGuarded
<1> DEFINE A ==
      safeguard # None =>
        /\ safeguard.state = "invalid" /\ safeguard'.state # "invalid" =>
             \E r \in Requests : pc[r] = "set" /\ call[r].kind \in {"verify", "restore"}
        /\ Evidence(safeguard') # Evidence(safeguard) =>
             \E r \in Requests : pc[r] = "set" /\ call[r].kind = "verify"
<1>1. Inv /\ [Next]_vars => [A]_vars
  <2> SUFFICES ASSUME Inv, [Next]_vars, safeguard # None PROVE A
    BY DEF A
  <2>1. CASE safeguard' = safeguard
    BY <2>1
  <2>2. CASE safeguard' # safeguard
    <3>1. PICK r \in Requests :
            \/ Edit(r) \/ Synchronize(r)
            \/ SetLifecycle(r) /\ safeguard.state \in FromStates(call[r].kind)
      BY <2>2, Writers
    <3>2. CASE Edit(r)
      BY <3>2, EditWrites
    <3>3. CASE Synchronize(r)
      BY <2>2, <3>3, SynchronizeWrites
    <3>4. CASE SetLifecycle(r) /\ safeguard.state \in FromStates(call[r].kind)
      <4>1. /\ pc[r] = "set" /\ call[r].kind \in MoveKinds /\ safeguard'.state = ToState(r)
            /\ call[r].kind # "verify" => Evidence(safeguard') = Evidence(safeguard)
        BY <3>4, SetWrites
      <4>2. call[r].kind = "invalidate" => safeguard'.state = "invalid"
        BY <4>1 DEF ToState
      <4> QED BY <4>1, <4>2 DEF MoveKinds
    <3> QED BY <3>1, <3>2, <3>3, <3>4
  <2> QED BY <2>1, <2>2
<1>2. LifecycleIsGuarded <=> [][A]_vars
  BY DEF LifecycleIsGuarded
<1> HIDE DEF A
<1> QED BY <1>1, <1>2, Inductive, PTL DEF Spec

\* Registration is a step of the abstract safeguard.
LEMMA InsertImplements ==
  ASSUME Inv, NEW r \in Requests, Insert(r) PROVE Lifecycle!Register
<1>1. safeguard = None /\ safeguard' = copy[r] /\ Registration(copy[r])
  BY DEF Inv, Ready, ReadyAt, Insert
<1>2. copy[r].interval \in Intervals /\ copy[r].note \in Notes
        /\ copy[r].verifiedAt \in Times \cup {None} /\ copy[r].verifiedBy \in Users \cup {None}
        /\ copy[r] = Row(copy[r].state, copy[r].interval, copy[r].verifiedAt,
                         copy[r].verifiedBy, copy[r].note)
  BY <1>1, RowFields DEF Registration
<1>3. CASE copy[r].state = "pending" /\ copy[r].verifiedAt = None /\ copy[r].verifiedBy = None
  BY <1>1, <1>2, <1>3 DEF Lifecycle!Register, Row
<1>4. CASE copy[r].state \in {"active", "expired"} /\ Verified(copy[r])
  <2>1. copy[r].verifiedAt \in Times /\ copy[r].verifiedBy \in Users
    BY <1>2, <1>4 DEF Verified
  <2> QED BY <1>1, <1>2, <1>4, <2>1 DEF Lifecycle!Register, Row
<1> QED BY <1>1, <1>3, <1>4 DEF Registration

\* A lifecycle statement is a verification, an invalidation or a restoration.
LEMMA SetImplements ==
  ASSUME Inv, NEW r \in Requests, SetLifecycle(r), safeguard.state \in FromStates(call[r].kind)
  PROVE  Lifecycle!Next
<1> DEFINE n == safeguard'.note
<1>1. /\ safeguard \in Rows /\ safeguard # None /\ safeguard' \in Rows
      /\ call[r].kind \in MoveKinds /\ safeguard'.state = ToState(r)
      /\ safeguard'.interval = safeguard.interval
      /\ call[r].kind = "verify" =>
           safeguard'.verifiedAt \in Times /\ safeguard'.verifiedBy \in Users
      /\ call[r].kind # "verify" => Evidence(safeguard') = Evidence(safeguard)
      /\ call[r].kind = "restore" /\ ToState(r) = "active" => Verified(safeguard)
  BY SetWrites
<1>2. n \in Notes /\ safeguard' = Row(safeguard'.state, safeguard'.interval,
                                      safeguard'.verifiedAt, safeguard'.verifiedBy, n)
  BY <1>1, RowFields
<1>3. CASE call[r].kind = "verify"
  <2>1. safeguard'.state = "active"
    BY <1>1, <1>3 DEF ToState
  <2>2. Lifecycle!Rewritten("active", safeguard'.verifiedAt, safeguard'.verifiedBy,
                            safeguard.interval, n)
    BY <1>1, <1>2, <2>1 DEF Lifecycle!Rewritten, Row
  <2>3. Lifecycle!Verify
    BY <1>1, <1>2, <1>3, <2>2 DEF Lifecycle!Verify
  <2> QED BY <2>3 DEF Lifecycle!Next
<1>4. ASSUME call[r].kind # "verify"
      PROVE  Lifecycle!Rewritten(ToState(r), safeguard.verifiedAt, safeguard.verifiedBy,
                                 safeguard.interval, n)
  <2>1. safeguard'.verifiedAt = safeguard.verifiedAt /\ safeguard'.verifiedBy = safeguard.verifiedBy
    BY <1>1, <1>4 DEF Evidence
  <2> QED BY <1>1, <1>2, <2>1 DEF Lifecycle!Rewritten, Row
<1>5. CASE call[r].kind = "invalidate"
  <2>1. safeguard.state # "invalid" /\ ToState(r) = "invalid"
    BY <1>5 DEF FromStates, ToState
  <2>2. Lifecycle!Invalidate
    BY <1>1, <1>2, <1>4, <1>5, <2>1 DEF Lifecycle!Invalidate
  <2> QED BY <2>2 DEF Lifecycle!Next
<1>6. CASE call[r].kind = "restore"
  <2>1. safeguard.state = "invalid" /\ ToState(r) \in {"pending", "active"}
    BY <1>6 DEF FromStates, ToState, Inv, Ready, ReadyAt
  <2>2. ToState(r) = "active" => Lifecycle!Evidenced(safeguard.verifiedAt, safeguard.verifiedBy)
    BY <1>1, <1>6, RowFields DEF Lifecycle!Evidenced, Verified
  <2>3. Lifecycle!Restore
    BY <1>1, <1>2, <1>4, <1>6, <2>1, <2>2 DEF Lifecycle!Restore
  <2> QED BY <2>3 DEF Lifecycle!Next
<1> QED BY <1>1, <1>3, <1>5, <1>6 DEF MoveKinds

\* The statements of all handlers are steps in the life of the abstract safeguard
\* (SafeguardLifecycle).
THEOREM Refinement == Spec => ImplementsSafeguardLifecycle
<1>1. Init => Lifecycle!Init
  BY DEF Init, Lifecycle!Init
<1>2. Inv /\ [Next]_vars => [Lifecycle!Next]_safeguard
  <2> SUFFICES ASSUME Inv, [Next]_vars, safeguard' # safeguard PROVE Lifecycle!Next
    OBVIOUS
  <2>1. PICK r \in Requests :
          \/ Insert(r) \/ Edit(r) \/ Synchronize(r)
          \/ SetLifecycle(r) /\ safeguard.state \in FromStates(call[r].kind)
    BY Writers
  <2>2. CASE Insert(r)
    BY <2>2, InsertImplements DEF Lifecycle!Next
  <2>3. CASE Edit(r)
    <3>1. /\ safeguard # None /\ copy[r].interval \in Intervals /\ copy[r].note \in Notes
          /\ safeguard' = Row(safeguard.state, copy[r].interval, safeguard.verifiedAt,
                              safeguard.verifiedBy, copy[r].note)
      BY <2>3, EditWrites, RowFields
    <3> QED BY <3>1 DEF Lifecycle!Next, Lifecycle!Edit, Lifecycle!Rewritten, Row
  <2>4. CASE Synchronize(r)
    <3>1. /\ safeguard # None /\ safeguard.state = "active"
          /\ safeguard' = Row("expired", safeguard.interval, safeguard.verifiedAt,
                              safeguard.verifiedBy, safeguard.note)
      BY <2>4, SynchronizeWrites
    <3> QED BY <3>1 DEF Lifecycle!Next, Lifecycle!Expire, Lifecycle!Rewritten, Row
  <2>5. CASE SetLifecycle(r) /\ safeguard.state \in FromStates(call[r].kind)
    BY <2>5, SetImplements
  <2> QED BY <2>1, <2>2, <2>3, <2>4, <2>5
<1> QED BY <1>1, <1>2, Inductive, PTL DEF Spec, ImplementsSafeguardLifecycle, Lifecycle!Spec
=============================================================================
