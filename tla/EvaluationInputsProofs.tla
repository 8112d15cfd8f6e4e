------------------------ MODULE EvaluationInputsProofs ------------------------
(***************************************************************************)
(* What clients may rely on when a coverage evaluation is run while the    *)
(* safeguard it depends on is changed, for any number of requests, users   *)
(* and days.                                                               *)
(***************************************************************************)
EXTENDS EvaluationInputs, SafeguardRegisterProofs

-----------------------------------------------------------------------------
(* The run and the register.                                               *)

\* Every step of the handlers and the run is a step of SafeguardRegister or leaves its
\* variables alone.
LEMMA InputsStepIsStep ==
  ASSUME [InputsNext]_inputVars
  PROVE  [Next]_vars
<1>1. ASSUME NEW r \in Requests, ReceiveAndNote(r) \/ Serve(r) PROVE [Next]_vars
  BY <1>1 DEF ReceiveAndNote, Serve, Next, Step
<1>2. CASE StartRun \/ ListSafeguards \/ FreezeSnapshot
  BY <1>2 DEF StartRun, ListSafeguards, FreezeSnapshot
<1>3. CASE TickAndNote \/ CrashAll
  BY <1>3 DEF TickAndNote, CrashAll, Next
<1>4. CASE Resting \/ UNCHANGED inputVars
  BY <1>4 DEF Resting, inputVars
<1> QED BY <1>1, <1>2, <1>3, <1>4 DEF InputsNext

\* EvaluationInputs refines SafeguardRegister: whatever is proved of the latter holds
\* while evaluations read the table.
THEOREM InputsAreRegister == InputsSpec => Spec
<1>1. InputsInit => Init
  BY DEF InputsInit
<1>2. [InputsNext]_inputVars => [Next]_vars
  BY InputsStepIsStep
<1> QED BY <1>1, <1>2, PTL DEF InputsSpec, Spec

LEMMA InputsRegisterInv == InputsSpec => []Inv
BY InputsAreRegister, Inductive, PTL

-----------------------------------------------------------------------------
(* The invariant.                                                          *)

\* What is known of a request wherever it is.
SteadyAt(q) ==
  /\ pc[q] # "idle" => call[q] \in Calls
  /\ pc[q] # "done" => answer[q] = "pending"
  /\ pc[q] = "insert" => copy[q].note = {q}
  /\ pc[q] \in {"edit", "expire", "get"} => call[q].kind = "update"
  /\ pc[q] = "edit" => copy[q].note = IF call[q].note THEN {q} ELSE seen[q].note
  /\ \A p \in precede[q] : answer[p] = "ok"

Steady == \A q \in Requests : SteadyAt(q)

\* q has come as far as to write, if it was not cut short right before.
Acted(q) ==
  \/ pc[q] \in {"expire", "reload", "audit", "get"}
  \/ pc[q] = "done" /\ answer[q] \in {"ok", "internal", "lost"}

\* r has left its reason in the note.
Wrote(r) ==
  /\ call[r].kind \in {"create", "invalidate", "restore"}
  /\ pc[r] \in {"reload", "audit"} \/ answer[r] = "ok"

\* Somebody may be blamed for a note without the reason of r.
Blamed(r) ==
  \E q \in Requests \ {r} :
    Acted(q) /\ q \notin precede[r] /\ (Rewrites(q) \/ r \notin precede[q])

KeptNote(r, n) == r \in n \/ Blamed(r)

\* Reasons are in the table and in the rows that are to be written back.
Reasons ==
  /\ \A r \in Requests : Wrote(r) => safeguard # None /\ KeptNote(r, safeguard.note)
  /\ \A q \in Requests : pc[q] \in {"edit", "set"} =>
       \A r \in precede[q] : Wrote(r) => KeptNote(r, seen[q].note)

\* Somebody brought back what r invalidated.
Back(r) ==
  \E q \in Requests :
    Acted(q) /\ call[q].kind \in {"verify", "restore"} /\ q \notin precede[r]

Invalidations ==
  /\ \A r \in Requests :
       Wrote(r) /\ call[r].kind = "invalidate" /\ safeguard.state # "invalid" => Back(r)
  /\ \A r \in precedeRun : answer[r] = "ok"
  /\ counted \/ (run = "reference" /\ listed # None /\ listed.state = "active") =>
       \A r \in precedeRun : call[r].kind = "invalidate" => Back(r)

\* What the run has seen in force was so during the run.
SeenInForce ==
  /\ run \in {"list", "reference"} /\ InForce => wasInForce
  /\ run = "reference" /\ listed # None /\ InForceNow(listed) => wasInForce
  /\ counted => run = "done" /\ wasInForce

InputsInv == InputsTypeOK /\ Steady /\ Reasons /\ Invalidations /\ SeenInForce

LEMMA InputsInitInv == InputsInit => InputsInv
<1> SUFFICES ASSUME InputsInit PROVE InputsInv
  OBVIOUS
<1>1. InputsTypeOK /\ Steady
  BY DEF InputsInit, Init, InputsTypeOK, Steady, SteadyAt
<1>2. Reasons /\ Invalidations /\ SeenInForce
  BY DEF InputsInit, Init, Reasons, Invalidations, SeenInForce, Wrote
<1> QED BY <1>1, <1>2 DEF InputsInv

-----------------------------------------------------------------------------
(* Requests.                                                               *)

\* A step of a request leaves the others alone.
LEMMA OwnStep ==
  ASSUME Inv, InputsTypeOK, NEW r \in Requests, ReceiveAndNote(r) \/ Serve(r),
         NEW q \in Requests, q # r
  PROVE  /\ pc'[q] = pc[q] /\ call'[q] = call[q] /\ seen'[q] = seen[q] /\ copy'[q] = copy[q]
         /\ answer'[q] = answer[q] /\ precede'[q] = precede[q]
<1>1. TypeOK
  BY DEF Inv
<1>2. CASE ReceiveAndNote(r)
  BY <1>1, <1>2 DEF ReceiveAndNote, Receive, Goto, Reply, TypeOK, InputsTypeOK
<1>3. CASE Serve(r)
  <2>1. precede' = precede
    BY <1>3 DEF Serve
  <2>2. CASE GetScenario(r) \/ Insert(r) \/ PreviewRestore(r)
    BY <1>1, <2>1, <2>2 DEF GetScenario, Insert, PreviewRestore, Goto, Reply, TypeOK, locals
  <2>3. CASE Read(r)
    BY <1>1, <2>1, <2>3 DEF Read, Goto, Reply, TypeOK
  <2>4. CASE Edit(r) \/ Synchronize(r) \/ SetLifecycle(r)
    BY <1>1, <2>1, <2>4 DEF Edit, Synchronize, SetLifecycle, Goto, Reply, TypeOK, locals
  <2>5. CASE Reload(r) \/ RecordAudit(r) \/ Get(r) \/ StatementFails(r)
    BY <1>1, <2>1, <2>5 DEF Reload, RecordAudit, Get, StatementFails, Goto, Reply, TypeOK,
                            locals
  <2> QED BY <1>3, <2>2, <2>3, <2>4, <2>5 DEF Serve
<1> QED BY <1>2, <1>3

\* The steps in which no request takes part.
RequestsRest == UNCHANGED <<pc, call, seen, copy, answer, precede, safeguard>>

LEMMA Resters ==
  ASSUME StartRun \/ ListSafeguards \/ FreezeSnapshot \/ TickAndNote \/ Resting
           \/ UNCHANGED inputVars
  PROVE  RequestsRest
BY DEF StartRun, ListSafeguards, FreezeSnapshot, TickAndNote, Tick, Resting, inputVars, vars,
       locals, RequestsRest

\* The steps of a request in its own terms.
LEMMA OwnSteady ==
  ASSUME Inv, InputsTypeOK, Steady, NEW r \in Requests, ReceiveAndNote(r) \/ Serve(r)
  PROVE  /\ pc[r] # "done" /\ answer[r] = "pending"
         /\ pc'[r] # "idle" => call'[r] \in Calls
         /\ pc'[r] # "done" => answer'[r] = "pending"
         /\ pc'[r] = "insert" => copy'[r].note = {r}
         /\ pc'[r] \in {"edit", "expire", "get"} => call'[r].kind = "update"
         /\ pc'[r] = "edit" => copy'[r].note = IF call'[r].note THEN {r} ELSE seen'[r].note
<1>1. TypeOK /\ SteadyAt(r)
  BY DEF Inv, Steady
<1>2. CASE ReceiveAndNote(r)
  <2>1. PICK c \in Traffic :
          /\ call' = [call EXCEPT ![r] = c]
          /\ Goto(r, FirstStatement(c.kind)) \/ Reply(r, "forbidden")
    BY <1>2 DEF ReceiveAndNote, Receive
  <2>2. c \in Calls /\ call'[r] = c /\ pc[r] = "idle"
    BY <1>1, <1>2, <2>1, ConstantsAssumption DEF TypeOK, ReceiveAndNote, Receive
  <2>3. pc'[r] \in {"getScenario", "preview", "read", "done"}
    BY <1>1, <2>1 DEF FirstStatement, Goto, Reply, TypeOK
  <2> QED BY <1>1, <2>1, <2>2, <2>3 DEF SteadyAt, Goto, Reply, TypeOK
<1>3. CASE GetScenario(r)
  BY <1>1, <1>3 DEF GetScenario, SteadyAt, Goto, Reply, TypeOK
<1>4. CASE Insert(r) \/ PreviewRestore(r)
  BY <1>1, <1>4 DEF Insert, PreviewRestore, SteadyAt, Goto, Reply, TypeOK, locals
<1>5. CASE Read(r)
  <2>1. pc[r] = "read" /\ call' = call
    BY <1>5 DEF Read
  <2>2. CASE safeguard = None
    BY <1>1, <1>5, <2>1, <2>2 DEF Read, SteadyAt, Reply, TypeOK
  <2>3. CASE safeguard # None /\ call[r].kind # "update"
    BY <1>1, <1>5, <2>1, <2>3 DEF Read, SteadyAt, Goto, Reply, TypeOK
  <2>4. CASE safeguard # None /\ call[r].kind = "update"
    <3>1. /\ seen' = [seen EXCEPT ![r] = safeguard]
          /\ copy' = [copy EXCEPT ![r] = Edited(r, safeguard)] /\ Goto(r, "edit")
      BY <1>5, <2>4 DEF Read
    <3>2. Edited(r, safeguard).note = IF call[r].note THEN {r} ELSE safeguard.note
      BY DEF Edited
    <3> QED BY <1>1, <2>1, <2>4, <3>1, <3>2 DEF SteadyAt, Goto, TypeOK
  <2> QED BY <2>2, <2>3, <2>4
<1>6. CASE Edit(r) \/ Synchronize(r) \/ SetLifecycle(r)
  BY <1>1, <1>6 DEF Edit, Synchronize, SetLifecycle, SteadyAt, Goto, Reply, TypeOK, locals
<1>7. CASE Reload(r) \/ RecordAudit(r) \/ Get(r) \/ StatementFails(r)
  BY <1>1, <1>7 DEF Reload, RecordAudit, Get, StatementFails, SteadyAt, Goto, Reply, TypeOK,
                    locals, Statements
<1> QED BY <1>2, <1>3, <1>4, <1>5, <1>6, <1>7 DEF Serve

\* What is over stays: calls, answers, and that a request has come as far as to write.
LEMMA Lasts ==
  ASSUME Inv, InputsInv, [InputsNext]_inputVars, NEW q \in Requests
  PROVE  /\ pc[q] # "idle" =>
              pc'[q] # "idle" /\ call'[q] = call[q] /\ precede'[q] = precede[q]
         /\ pc[q] = "done" => pc'[q] = "done" /\ answer'[q] = answer[q]
         /\ Acted(q) => Acted(q)'
<1>1. TypeOK /\ InputsTypeOK /\ Steady /\ SteadyAt(q)
  BY DEF Inv, InputsInv, Steady
<1>2. CASE RequestsRest
  BY <1>2 DEF RequestsRest, Acted
<1>3. CASE CrashAll
  BY <1>1, <1>3 DEF CrashAll, Crash, locals, TypeOK, Acted, Statements
<1>4. ASSUME NEW r \in Requests, ReceiveAndNote(r) \/ Serve(r), q # r
      PROVE  /\ pc'[q] = pc[q] /\ call'[q] = call[q] /\ precede'[q] = precede[q]
             /\ answer'[q] = answer[q]
  BY <1>1, <1>4, OwnStep
<1>5. ASSUME ReceiveAndNote(q) \/ Serve(q)
      PROVE  /\ pc[q] # "idle" =>
                  pc'[q] # "idle" /\ call'[q] = call[q] /\ precede'[q] = precede[q]
             /\ pc[q] # "done" /\ (Acted(q) => Acted(q)')
  <2>1. CASE ReceiveAndNote(q)
    BY <2>1 DEF ReceiveAndNote, Receive, Acted
  <2>2. CASE Serve(q)
    <3>1. precede' = precede
      BY <2>2 DEF Serve
    <3>2. CASE GetScenario(q) \/ Insert(q) \/ PreviewRestore(q)
      BY <1>1, <3>1, <3>2
         DEF GetScenario, Insert, PreviewRestore, Goto, Reply, TypeOK, locals, Acted
    <3>3. CASE Read(q)
      BY <1>1, <3>1, <3>3 DEF Read, Goto, Reply, TypeOK, Acted
    <3>4. CASE Edit(q) \/ Synchronize(q) \/ SetLifecycle(q)
      BY <1>1, <3>1, <3>4 DEF Edit, Synchronize, SetLifecycle, Goto, Reply, TypeOK, locals, Acted
    <3>5. CASE Reload(q) \/ RecordAudit(q) \/ Get(q) \/ StatementFails(q)
      BY <1>1, <3>1, <3>5 DEF Reload, RecordAudit, Get, StatementFails, Goto, Reply, TypeOK,
                              locals, Acted, Statements
    <3> QED BY <2>2, <3>2, <3>3, <3>4, <3>5 DEF Serve
  <2> QED BY <1>5, <2>1, <2>2
<1> QED
  BY <1>2, <1>3, <1>4, <1>5, Resters DEF InputsNext, Acted

LEMMA SteadyStep ==
  ASSUME Inv, InputsInv, [InputsNext]_inputVars PROVE Steady'
<1>1. TypeOK /\ InputsTypeOK /\ Steady
  BY DEF Inv, InputsInv
<1>2. ASSUME NEW q \in Requests, NEW p \in precede'[q] PROVE answer'[p] = "ok"
  <2>1. precede' = precede \/ \E r \in Requests : precede' = [precede EXCEPT ![r] = Answered]
    BY DEF InputsNext, ReceiveAndNote, Serve, StartRun, ListSafeguards, FreezeSnapshot,
           TickAndNote, CrashAll, Resting, inputVars
  <2>2. p \in Requests /\ (p \in precede[q] \/ p \in Answered)
    BY <1>1, <2>1 DEF InputsTypeOK, Answered
  <2>3. answer[p] = "ok" /\ pc[p] = "done"
    BY <1>1, <2>2 DEF Steady, SteadyAt, Answered
  <2> QED BY <2>2, <2>3, Lasts
<1>3. CASE RequestsRest
  BY <1>1, <1>2, <1>3 DEF RequestsRest, Steady, SteadyAt
<1>4. CASE CrashAll
  BY <1>1, <1>2, <1>4 DEF CrashAll, Crash, locals, TypeOK, Statements, Steady, SteadyAt
<1>5. ASSUME NEW r \in Requests, ReceiveAndNote(r) \/ Serve(r) PROVE Steady'
  <2>1. ASSUME NEW q \in Requests, q # r PROVE SteadyAt(q)'
    <3>1. /\ pc'[q] = pc[q] /\ call'[q] = call[q] /\ seen'[q] = seen[q]
          /\ copy'[q] = copy[q] /\ answer'[q] = answer[q]
      BY <1>1, <1>5, <2>1, OwnStep
    <3>2. SteadyAt(q)
      BY <1>1 DEF Steady
    <3> QED BY <1>2, <3>1, <3>2 DEF SteadyAt
  <2>2. SteadyAt(r)'
    BY <1>1, <1>2, <1>5, OwnSteady DEF SteadyAt
  <2> QED BY <2>1, <2>2 DEF Steady
<1> QED BY <1>3, <1>4, <1>5, Resters DEF InputsNext

\* Types of what this module adds.
LEMMA InputsTypeStep ==
  ASSUME Inv, InputsTypeOK, [InputsNext]_inputVars PROVE InputsTypeOK'
<1>1. safeguard \in Rows \cup {None} /\ Answered \subseteq Requests
  BY DEF Inv, TypeOK, Answered
<1>2. ASSUME NEW r \in Requests, ReceiveAndNote(r) PROVE InputsTypeOK'
  BY <1>1, <1>2 DEF ReceiveAndNote, runVars, InputsTypeOK
<1>3. wasInForce' = (wasInForce \/ (run' \in {"list", "reference"} /\ InForce'))
        => wasInForce' \in BOOLEAN
  OBVIOUS
<1>4. ASSUME NEW r \in Requests, Serve(r) PROVE InputsTypeOK'
  BY <1>3, <1>4 DEF Serve, NoteForce, InputsTypeOK
<1>5. CASE StartRun \/ ListSafeguards \/ TickAndNote
  BY <1>1, <1>3, <1>5 DEF StartRun, ListSafeguards, TickAndNote, NoteForce, InputsTypeOK
<1>6. CASE FreezeSnapshot
  BY <1>6 DEF FreezeSnapshot, Counts, Eligible, InputsTypeOK
<1>7. CASE CrashAll \/ Resting \/ UNCHANGED inputVars
  BY <1>7 DEF CrashAll, Resting, inputVars, runVars, InputsTypeOK
<1> QED BY <1>2, <1>4, <1>5, <1>6, <1>7 DEF InputsNext

-----------------------------------------------------------------------------
(* Reasons.                                                                *)

\* A reason is left by the insert of Create and by the conditional update.
LEMMA WroteFrom ==
  ASSUME Inv, InputsInv, [InputsNext]_inputVars, NEW r \in Requests, Wrote(r)'
  PROVE  \/ Wrote(r)
         \/ Insert(r)
         \/ SetLifecycle(r) /\ safeguard.state \in FromStates(call[r].kind)
<1>1. TypeOK /\ InputsTypeOK /\ SteadyAt(r)
  BY DEF Inv, InputsInv, Steady
<1>2. CASE RequestsRest
  BY <1>2 DEF RequestsRest, Wrote
<1>3. CASE CrashAll
  BY <1>1, <1>3 DEF CrashAll, Crash, locals, TypeOK, Statements, Wrote
<1>4. ASSUME NEW q \in Requests, ReceiveAndNote(q) \/ Serve(q), q # r PROVE Wrote(r)
  BY <1>1, <1>4, OwnStep DEF Wrote
<1>5. ~ReceiveAndNote(r)
  <2> SUFFICES ASSUME ReceiveAndNote(r) PROVE FALSE
    OBVIOUS
  <2>1. pc[r] = "idle" /\ answer[r] = "pending"
    BY <1>1 DEF ReceiveAndNote, Receive, SteadyAt
  <2>2. PICK c : Goto(r, FirstStatement(c.kind)) \/ Reply(r, "forbidden")
    BY DEF ReceiveAndNote, Receive
  <2> QED BY <1>1, <2>1, <2>2 DEF FirstStatement, Goto, Reply, TypeOK, Wrote
<1>6. CASE Serve(r)
  <2>1. ~(GetScenario(r) \/ PreviewRestore(r) \/ Read(r))
    BY <1>1 DEF GetScenario, PreviewRestore, Read, Goto, Reply, TypeOK, SteadyAt, Wrote
  <2>2. ~(Edit(r) \/ Get(r) \/ StatementFails(r))
    BY <1>1 DEF Edit, Get, StatementFails, Goto, Reply, TypeOK, SteadyAt, Wrote, locals,
                Statements
  <2>3. CASE Synchronize(r)
    BY <1>1, <2>3 DEF Synchronize, Goto, TypeOK, SteadyAt, Wrote
  <2>4. CASE SetLifecycle(r) /\ safeguard.state \notin FromStates(call[r].kind)
    BY <1>1, <2>4 DEF SetLifecycle, Reply, TypeOK, SteadyAt, Wrote
  <2>5. CASE Reload(r) \/ RecordAudit(r)
    BY <1>1, <2>5 DEF Reload, RecordAudit, Wrote, locals
  <2> QED BY <1>6, <2>1, <2>2, <2>3, <2>4, <2>5 DEF Serve
<1> QED BY <1>2, <1>3, <1>4, <1>5, <1>6, Resters DEF InputsNext

\* Who is to blame stays to blame.
LEMMA BlamedLasts ==
  ASSUME Inv, InputsInv, [InputsNext]_inputVars, NEW r \in Requests, pc[r] # "idle", Blamed(r)
  PROVE  Blamed(r)'
<1>1. PICK q \in Requests \ {r} :
        Acted(q) /\ q \notin precede[r] /\ (Rewrites(q) \/ r \notin precede[q])
  BY DEF Blamed
<1>2. pc[q] # "idle"
  BY <1>1 DEF Acted
<1>3. /\ Acted(q)' /\ call'[q] = call[q] /\ precede'[q] = precede[q]
      /\ precede'[r] = precede[r]
  BY <1>1, <1>2, Lasts
<1> QED BY <1>1, <1>3 DEF Blamed, Rewrites

\* A request that has left its reason has arrived; one that is under way was not answered
\* before any other.
LEMMA WroteFacts ==
  ASSUME Inv, InputsInv, NEW r \in Requests
  PROVE  /\ Wrote(r) => pc[r] # "idle"
         /\ \A q \in Requests : pc[q] # "done" => q \notin precede[r]
BY DEF InputsInv, Steady, SteadyAt, Wrote

\* A request that changes the note keeps the reasons in it or may be blamed.
LEMMA ReasonsWritten ==
  ASSUME Inv, InputsInv, [InputsNext]_inputVars, NEW r \in Requests, Wrote(r),
         NEW w \in Requests,
         Edit(w) \/ (SetLifecycle(w) /\ safeguard.state \in FromStates(call[w].kind))
  PROVE  KeptNote(r, safeguard.note)'
<1>1. TypeOK /\ SteadyAt(w) /\ Reasons /\ pc[r] # "idle"
  BY WroteFacts DEF Inv, InputsInv, Steady
<1>2. CASE r = w
  <2>1. ~Edit(w)
    BY <1>1, <1>2 DEF Edit, SteadyAt, Wrote
  <2>2. pc[w] = "set" /\ answer[w] = "pending"
    BY <1>1, <2>1 DEF SetLifecycle, SteadyAt
  <2> QED BY <1>2, <2>2 DEF Wrote
<1>3. CASE r # w
  <2>1. /\ pc[w] \in {"edit", "set"} /\ w \notin precede[r]
        /\ precede'[w] = precede[w] /\ precede'[r] = precede[r] /\ call'[w] = call[w]
    BY <1>1, WroteFacts, Lasts DEF Edit, SetLifecycle
  <2>2. Acted(w)'
    BY <1>1 DEF Edit, SetLifecycle, Goto, TypeOK, Acted
  <2>3. Rewrites(w) \/ r \notin precede[w] => KeptNote(r, safeguard.note)'
    BY <1>3, <2>1, <2>2 DEF KeptNote, Blamed, Rewrites
  <2>4. ~Rewrites(w) => seen[w].note \subseteq safeguard'.note
    <3>1. CASE Edit(w)
      <4>1. safeguard'.note = copy[w].note /\ call[w].kind = "update" /\ pc[w] = "edit"
        BY <1>1, <3>1 DEF Edit, SteadyAt
      <4> QED BY <1>1, <4>1 DEF SteadyAt, Rewrites
    <3>2. CASE SetLifecycle(w) /\ safeguard.state \in FromStates(call[w].kind)
      <4>1. safeguard' = Moved(w)
        BY <3>2 DEF SetLifecycle
      <4>2. safeguard'.note = IF call[w].kind = "verify" THEN {w} ELSE seen[w].note \cup {w}
        BY <4>1 DEF Moved
      <4> QED BY <4>2 DEF Rewrites
    <3> QED BY <3>1, <3>2
  <2>5. r \in precede[w] => KeptNote(r, seen[w].note)
    BY <1>1, <2>1 DEF Reasons
  <2>6. r \in precede[w] /\ ~Rewrites(w) => KeptNote(r, safeguard.note)'
    BY <1>1, <2>4, <2>5, BlamedLasts DEF KeptNote
  <2> QED BY <2>3, <2>6
<1> QED BY <1>2, <1>3

\* The row that Update, Invalidate and Restore write back was read after every request
\* that had been answered before.
LEMMA SeenFrom ==
  ASSUME Inv, InputsInv, [InputsNext]_inputVars, NEW q \in Requests, pc'[q] \in {"edit", "set"}
  PROVE  \/ pc[q] = pc'[q] /\ seen'[q] = seen[q]
         \/ pc[q] = "read" /\ seen'[q] = safeguard /\ safeguard # None
<1>1. TypeOK /\ InputsTypeOK
  BY DEF Inv, InputsInv
<1>2. CASE RequestsRest
  BY <1>2 DEF RequestsRest
<1>3. CASE CrashAll
  BY <1>1, <1>3 DEF CrashAll, Crash, locals, TypeOK
<1>4. ASSUME NEW r \in Requests, ReceiveAndNote(r) \/ Serve(r), q # r
      PROVE  pc[q] = pc'[q] /\ seen'[q] = seen[q]
  BY <1>1, <1>4, OwnStep
<1>5. ~ReceiveAndNote(q)
  <2> SUFFICES ASSUME ReceiveAndNote(q) PROVE FALSE
    OBVIOUS
  <2>1. PICK c : Goto(q, FirstStatement(c.kind)) \/ Reply(q, "forbidden")
    BY DEF ReceiveAndNote, Receive
  <2> QED BY <1>1, <2>1 DEF FirstStatement, Goto, Reply, TypeOK
<1>6. CASE Serve(q)
  <2>1. ~(GetScenario(q) \/ Insert(q) \/ PreviewRestore(q))
    BY <1>1 DEF GetScenario, Insert, PreviewRestore, Goto, Reply, TypeOK
  <2>2. CASE Read(q)
    BY <1>1, <2>2 DEF Read, Reply, TypeOK
  <2>3. ~(Edit(q) \/ Synchronize(q) \/ SetLifecycle(q))
    BY <1>1 DEF Edit, Synchronize, SetLifecycle, Goto, Reply, TypeOK
  <2>4. ~(Reload(q) \/ RecordAudit(q) \/ Get(q) \/ StatementFails(q))
    BY <1>1 DEF Reload, RecordAudit, Get, StatementFails, Goto, Reply, TypeOK
  <2> QED BY <1>6, <2>1, <2>2, <2>3, <2>4 DEF Serve
<1> QED BY <1>2, <1>3, <1>4, <1>5, <1>6, Resters DEF InputsNext

\* The reason of a request is in the note it writes.
LEMMA ReasonLeft ==
  ASSUME Inv, InputsInv, NEW r \in Requests,
         Insert(r) \/ (SetLifecycle(r) /\ safeguard.state \in FromStates(call[r].kind))
  PROVE  safeguard' # None /\ r \in safeguard'.note
<1>1. SteadyAt(r) /\ ReadyAt(r)
  BY DEF Inv, Ready, InputsInv, Steady
<1>2. CASE Insert(r)
  <2>1. safeguard' = copy[r] /\ copy[r] \in Rows /\ copy[r].note = {r}
    BY <1>1, <1>2 DEF Insert, SteadyAt, ReadyAt, Registration
  <2> QED BY <2>1, ConstantsAssumption
<1>3. CASE SetLifecycle(r) /\ safeguard.state \in FromStates(call[r].kind)
  <2>1. safeguard' = Moved(r) /\ safeguard' \in Rows
    BY <1>3, SetWrites
  <2>2. r \in Moved(r).note
    BY DEF Moved
  <2> QED BY <2>1, <2>2, ConstantsAssumption
<1> QED BY <1>2, <1>3

LEMMA ReasonsStep ==
  ASSUME Inv, InputsInv, [InputsNext]_inputVars PROVE Reasons'
<1>1. Reasons /\ Steady /\ [Next]_vars
  BY InputsStepIsStep DEF InputsInv
<1>2. ASSUME NEW r \in Requests, Wrote(r)'
      PROVE  safeguard' # None /\ KeptNote(r, safeguard.note)'
  <2>1. CASE Insert(r) \/ (SetLifecycle(r) /\ safeguard.state \in FromStates(call[r].kind))
    BY <2>1, ReasonLeft DEF KeptNote
  <2>2. CASE Wrote(r)
    <3>1. safeguard # None /\ KeptNote(r, safeguard.note) /\ pc[r] # "idle"
      BY <1>1, <2>2, WroteFacts DEF Reasons
    <3>2. CASE safeguard' = safeguard
      BY <3>1, <3>2, BlamedLasts DEF KeptNote
    <3>3. CASE safeguard' # safeguard
      <4>1. PICK w \in Requests :
              \/ Edit(w) \/ Synchronize(w)
              \/ SetLifecycle(w) /\ safeguard.state \in FromStates(call[w].kind)
        BY <1>1, <3>1, <3>3, Writers
      <4>2. CASE Synchronize(w)
        <5>1. safeguard' \in Rows /\ safeguard'.note = safeguard.note
          BY <3>3, <4>2, SynchronizeWrites DEF Row
        <5> QED BY <3>1, <5>1, BlamedLasts, ConstantsAssumption DEF KeptNote
      <4>3. CASE Edit(w)
        <5>1. safeguard' \in Rows
          BY <4>3, EditWrites
        <5> QED BY <2>2, <4>3, <5>1, ReasonsWritten, ConstantsAssumption
      <4>4. CASE SetLifecycle(w) /\ safeguard.state \in FromStates(call[w].kind)
        <5>1. safeguard' \in Rows
          BY <4>4, SetWrites
        <5> QED BY <2>2, <4>4, <5>1, ReasonsWritten, ConstantsAssumption
      <4> QED BY <4>1, <4>2, <4>3, <4>4
    <3> QED BY <3>2, <3>3
  <2> QED BY <1>2, <2>1, <2>2, WroteFrom
<1>3. ASSUME NEW q \in Requests, pc'[q] \in {"edit", "set"}, NEW r \in precede'[q], Wrote(r)'
      PROVE  KeptNote(r, seen[q].note)'
  <2>1. pc[q] \in {"read", "edit", "set"} /\ precede'[q] = precede[q]
    BY <1>3, SeenFrom, Lasts
  <2>2. r \in precede[q] /\ r \in Requests
    BY <1>3, <2>1 DEF InputsInv, InputsTypeOK
  <2>3. answer[r] = "ok" /\ pc[r] = "done"
    BY <1>1, <2>2 DEF Steady, SteadyAt
  <2>4. Wrote(r)
    BY <1>3, <2>2, <2>3, Lasts DEF Wrote
  <2>5. KeptNote(r, safeguard.note) /\ (pc[q] \in {"edit", "set"} => KeptNote(r, seen[q].note))
    BY <1>1, <2>2, <2>4 DEF Reasons
  <2>6. Blamed(r) => Blamed(r)'
    BY <2>2, <2>3, BlamedLasts
  <2>7. CASE pc[q] = pc'[q] /\ seen'[q] = seen[q]
    BY <1>3, <2>5, <2>6, <2>7 DEF KeptNote
  <2>8. CASE seen'[q] = safeguard
    BY <2>5, <2>6, <2>8 DEF KeptNote
  <2> QED BY <1>3, <2>7, <2>8, SeenFrom
<1> QED BY <1>2, <1>3 DEF Reasons

-----------------------------------------------------------------------------
(* Invalidations.                                                          *)

\* Who brought the safeguard back is known for good.
LEMMA BackLasts ==
  ASSUME Inv, InputsInv, [InputsNext]_inputVars, NEW r \in Requests, pc[r] # "idle", Back(r)
  PROVE  Back(r)'
<1>1. PICK q \in Requests :
        Acted(q) /\ call[q].kind \in {"verify", "restore"} /\ q \notin precede[r]
  BY DEF Back
<1>2. pc[q] # "idle"
  BY <1>1 DEF Acted
<1>3. Acted(q)' /\ call'[q] = call[q] /\ precede'[r] = precede[r]
  BY <1>1, <1>2, Lasts
<1> QED BY <1>1, <1>3 DEF Back

\* A safeguard that was invalid and is not any more was brought back by the request of
\* this step.
LEMMA BroughtNow ==
  ASSUME Inv, InputsInv, [InputsNext]_inputVars, safeguard # None,
         safeguard.state = "invalid", safeguard'.state # "invalid", NEW r \in Requests,
         pc[r] # "idle"
  PROVE  Back(r)'
<1>1. TypeOK /\ [Next]_vars /\ safeguard' # safeguard
  BY InputsStepIsStep DEF Inv
<1>2. PICK w \in Requests :
        \/ Edit(w) \/ Synchronize(w)
        \/ SetLifecycle(w) /\ safeguard.state \in FromStates(call[w].kind)
  BY <1>1, Writers
<1>3. ~Edit(w)
  BY EditWrites
<1>4. ~Synchronize(w)
  BY <1>1, SynchronizeWrites
<1>5. SetLifecycle(w) /\ call[w].kind \in MoveKinds /\ safeguard'.state = ToState(w)
  BY <1>2, <1>3, <1>4, SetWrites
<1>6. call[w].kind \in {"verify", "restore"}
  BY <1>5 DEF MoveKinds, ToState
<1>7. pc[w] = "set" /\ pc'[w] = "reload"
  BY <1>1, <1>2, <1>3, <1>4 DEF SetLifecycle, Goto, TypeOK
<1>8. w \notin precede[r] /\ precede'[r] = precede[r] /\ call'[w] = call[w]
  BY <1>7, WroteFacts, Lasts
<1> QED BY <1>6, <1>7, <1>8 DEF Back, Acted

LEMMA InvalidationsStep ==
  ASSUME Inv, InputsInv, [InputsNext]_inputVars PROVE Invalidations'
<1>1. /\ Invalidations /\ Steady /\ Reasons /\ InputsTypeOK /\ [Next]_vars
      /\ safeguard \in Rows \cup {None}
  BY InputsStepIsStep DEF InputsInv, Inv, TypeOK
<1>2. ASSUME NEW r \in Requests, Wrote(r)', call'[r].kind = "invalidate",
             safeguard'.state # "invalid"
      PROVE  Back(r)'
  <2>1. ~Insert(r)
    BY <1>1, <1>2 DEF Insert, locals, Inv, Ready, ReadyAt
  <2>2. ~(SetLifecycle(r) /\ safeguard.state \in FromStates(call[r].kind))
    <3> SUFFICES ASSUME SetLifecycle(r), safeguard.state \in FromStates(call[r].kind)
                 PROVE  safeguard'.state = "invalid"
      BY <1>2
    <3>1. safeguard'.state = ToState(r) /\ call' = call
      BY SetWrites DEF SetLifecycle
    <3> QED BY <1>2, <3>1 DEF ToState
  <2>3. Wrote(r)
    BY <1>2, <2>1, <2>2, WroteFrom
  <2>4. safeguard # None /\ pc[r] # "idle" /\ call'[r] = call[r]
    BY <1>1, <2>3, WroteFacts, Lasts DEF Reasons
  <2>5. CASE safeguard.state = "invalid"
    BY <1>2, <2>4, <2>5, BroughtNow
  <2>6. CASE safeguard.state # "invalid"
    BY <1>1, <1>2, <2>3, <2>4, <2>6, BackLasts DEF Invalidations
  <2> QED BY <2>5, <2>6
<1>3. \/ precedeRun' = precedeRun /\ (run' = "reference" => run = "reference" \/ ListSafeguards)
      \/ precedeRun' = Answered /\ run' = "list" /\ run = "idle"
  BY DEF InputsNext, ReceiveAndNote, Serve, StartRun, ListSafeguards, FreezeSnapshot,
         TickAndNote, CrashAll, Resting, inputVars, runVars
<1>4. \A r \in precedeRun' : r \in Requests /\ answer[r] = "ok" /\ pc[r] = "done"
  <2>1. \A r \in precedeRun \cup Answered : r \in Requests /\ answer[r] = "ok"
    BY <1>1 DEF Invalidations, Answered, InputsTypeOK
  <2>2. \A r \in precedeRun' : r \in precedeRun \cup Answered
    BY <1>3
  <2> QED BY <1>1, <2>1, <2>2 DEF Steady, SteadyAt
<1>5. \A r \in precedeRun' : answer'[r] = "ok" /\ call'[r] = call[r]
  BY <1>4, Lasts
<1>6. ASSUME counted' \/ (run' = "reference" /\ listed' # None /\ listed'.state = "active"),
             NEW r \in precedeRun', call'[r].kind = "invalidate"
      PROVE  Back(r)'
  <2>1. Wrote(r) /\ pc[r] # "idle" /\ call[r].kind = "invalidate"
    BY <1>4, <1>5, <1>6 DEF Wrote
  <2>2. CASE ListSafeguards
    <3>1. counted \/ (safeguard # None /\ safeguard.state = "active")
      BY <1>6, <2>2 DEF ListSafeguards
    <3> QED BY <1>1, <1>4, <1>6, <2>1, <2>2, <3>1, BackLasts
            DEF Invalidations, ListSafeguards
  <2>3. CASE FreezeSnapshot
    <3>1. listed # None /\ listed.state = "active" /\ run = "reference"
      BY <1>6, <2>3 DEF FreezeSnapshot, Counts, Eligible
    <3> QED BY <1>1, <1>4, <1>6, <2>1, <2>3, <3>1, BackLasts
            DEF Invalidations, FreezeSnapshot
  <2>4. CASE precedeRun' = precedeRun /\ listed' = listed /\ counted' = counted
               /\ (run' = "reference" => run = "reference")
    BY <1>1, <1>4, <1>6, <2>1, <2>4, BackLasts DEF Invalidations
  <2>5. CASE StartRun
    <3>1. run' = "list" /\ counted' = counted /\ run = "idle"
      BY <2>5 DEF StartRun
    <3> QED BY <1>6, <3>1 DEF InputsInv, SeenInForce
  <2> QED
    BY <2>2, <2>3, <2>4, <2>5
       DEF InputsNext, ReceiveAndNote, Serve, TickAndNote, CrashAll, Resting, inputVars, runVars
<1> QED BY <1>2, <1>5, <1>6 DEF Invalidations

-----------------------------------------------------------------------------
(* What is in force.                                                       *)

\* A time is cut by less than a second.
LEMMA TruncatedFacts ==
  ASSUME NEW t \in Nat
  PROVE  Truncated(t) \in Int /\ Truncated(t) <= t /\ t < Truncated(t) + Second
<1>1. Second \in Nat /\ Second > 0
  BY SecondAssumption
<1>2. t % Second \in 0..(Second - 1)
  BY <1>1
<1> QED BY <1>1, <1>2 DEF Truncated

\* What the algorithm counts is in force at that time, and was so the tick before.
LEMMA EffectiveFacts ==
  ASSUME Inv, Inv', NEW x \in Rows
  PROVE  /\ Eligible(x, Truncated(now)) => InForceNow(x)
         /\ now' \in {now, now + 1} /\ x.state = "active" /\ x.verifiedAt # None
              /\ now' < x.verifiedAt + x.interval + Second => InForceNow(x)
<1>1. now \in Nat /\ now' \in Nat
  BY ConstantsAssumption DEF Inv, TypeOK, Times
<1>2. x.interval \in Nat /\ x.verifiedAt \in Nat \cup {None}
  <2>1. x.interval \in Intervals /\ x.verifiedAt \in Times \cup {None}
    BY RowFields
  <2>2. Intervals \subseteq Nat /\ Times \subseteq Nat
    BY ConstantsAssumption DEF Times
  <2> QED BY <2>1, <2>2
<1>3. Second \in Nat
  BY SecondAssumption
<1>4. ASSUME Eligible(x, Truncated(now)) PROVE InForceNow(x)
  <2>1. x.verifiedAt \in Nat
    BY <1>2, <1>4 DEF Eligible
  <2>2. Truncated(now) \in Int /\ now < Truncated(now) + Second
    BY <1>1, TruncatedFacts
  <2>3. Truncated(x.verifiedAt) \in Int /\ Truncated(x.verifiedAt) <= x.verifiedAt
    BY <2>1, TruncatedFacts
  <2>4. x.state = "active" /\ x.verifiedAt # None
          /\ Truncated(now) <= Truncated(x.verifiedAt) + x.interval
    BY <1>4 DEF Eligible
  <2> QED BY <1>1, <1>2, <1>3, <2>1, <2>2, <2>3, <2>4 DEF InForceNow
<1> QED BY <1>1, <1>2, <1>3, <1>4 DEF InForceNow

\* A step that notes what is in force, with the run where it is or gone.
LEMMA NotedForce ==
  ASSUME Inv, Inv', InputsInv, NoteForce, UNCHANGED counted, counted => run' = "done",
         now' \in {now, now + 1},
         run' = "reference" => run = "reference" /\ listed' = listed
  PROVE  SeenInForce'
<1>1. SeenInForce /\ listed \in Rows \cup {None} /\ (wasInForce => wasInForce')
  BY DEF InputsInv, InputsTypeOK, NoteForce
<1>2. (run \in {"list", "reference"} /\ InForce => wasInForce)'
  BY DEF NoteForce
<1>3. ASSUME run' = "reference", listed' # None, InForceNow(listed)' PROVE wasInForce'
  <2>1. listed \in Rows /\ run = "reference" /\ listed' = listed
    BY <1>1, <1>3
  <2>2. InForceNow(listed)
    BY <1>3, <2>1, EffectiveFacts DEF InForceNow
  <2> QED BY <1>1, <2>1, <2>2, ConstantsAssumption DEF SeenInForce
<1>4. (counted => run = "done" /\ wasInForce)'
  BY <1>1 DEF SeenInForce
<1> QED BY <1>2, <1>3, <1>4 DEF SeenInForce

LEMMA ForceStep ==
  ASSUME Inv, Inv', InputsInv, [InputsNext]_inputVars PROVE SeenInForce'
<1>1. SeenInForce /\ InputsTypeOK /\ TypeOK
  BY DEF InputsInv, Inv
<1>2. ASSUME NEW r \in Requests, ReceiveAndNote(r) PROVE SeenInForce'
  <2>1. UNCHANGED <<runVars, safeguard, now>>
    BY <1>2 DEF ReceiveAndNote, Receive
  <2> QED BY <1>1, <2>1 DEF SeenInForce, runVars, InForce, InForceNow
<1>3. ASSUME NEW r \in Requests, Serve(r) PROVE SeenInForce'
  <2>1. now' = now
    BY <1>3 DEF Serve, GetScenario, Insert, PreviewRestore, Read, Edit, Synchronize,
                SetLifecycle, Reload, RecordAudit, Get, StatementFails
  <2>2. NoteForce /\ UNCHANGED <<run, listed, counted>>
    BY <1>3 DEF Serve
  <2> QED BY <1>1, <2>1, <2>2, NotedForce DEF SeenInForce
<1>4. CASE StartRun
  BY <1>1, <1>4, NotedForce DEF StartRun, vars, SeenInForce
<1>5. CASE ListSafeguards
  <2>1. /\ run = "list" /\ run' = "reference" /\ listed' = safeguard
        /\ UNCHANGED <<safeguard, now, counted>> /\ NoteForce
    BY <1>5 DEF ListSafeguards, vars
  <2>2. listed' # None /\ InForceNow(listed)' => InForce
    BY <2>1 DEF InForce, InForceNow
  <2> QED BY <1>1, <2>1, <2>2 DEF SeenInForce, NoteForce
<1>6. CASE FreezeSnapshot
  <2>1. /\ run = "reference" /\ run' = "done" /\ counted' = Counts(listed)
        /\ UNCHANGED wasInForce
    BY <1>6 DEF FreezeSnapshot
  <2>2. Counts(listed) => listed \in Rows /\ listed # None /\ Eligible(listed, Truncated(now))
    BY <1>1 DEF Counts, InputsTypeOK
  <2>3. Counts(listed) => wasInForce
    BY <1>1, <2>1, <2>2, EffectiveFacts DEF SeenInForce
  <2> QED BY <2>1, <2>3 DEF SeenInForce
<1>7. CASE TickAndNote
  <2>1. now' = now + 1 /\ NoteForce /\ UNCHANGED <<run, listed, counted>>
    BY <1>7 DEF TickAndNote, Tick
  <2> QED BY <1>1, <2>1, NotedForce DEF SeenInForce
<1>8. CASE CrashAll
  <2>1. run' \in {"idle", "done"} /\ (run # "idle" => run' = "done")
          /\ UNCHANGED <<counted, wasInForce>>
    BY <1>8 DEF CrashAll
  <2> QED BY <1>1, <2>1 DEF SeenInForce
<1>9. CASE Resting \/ UNCHANGED inputVars
  <2>1. UNCHANGED <<runVars, safeguard, now>>
    BY <1>9 DEF Resting, inputVars, vars
  <2> QED BY <1>1, <2>1 DEF SeenInForce, runVars, InForce, InForceNow
<1> QED BY <1>2, <1>3, <1>4, <1>5, <1>6, <1>7, <1>8, <1>9 DEF InputsNext

-----------------------------------------------------------------------------
(* Theorems.                                                               *)

\* InputsInv is inductive, given what SafeguardRegisterProofs knows of the handlers.
THEOREM InputsInductive == InputsSpec => []InputsInv
<1>1. InputsInit => InputsInv
  BY InputsInitInv
<1>2. Inv /\ Inv' /\ InputsInv /\ [InputsNext]_inputVars => InputsInv'
  <2> SUFFICES ASSUME Inv, Inv', InputsInv, [InputsNext]_inputVars PROVE InputsInv'
    OBVIOUS
  <2>1. InputsTypeOK' /\ Steady'
    BY InputsTypeStep, SteadyStep DEF InputsInv
  <2>2. Reasons' /\ Invalidations' /\ SeenInForce'
    BY ReasonsStep, InvalidationsStep, ForceStep
  <2> QED BY <2>1, <2>2 DEF InputsInv
<1> QED BY <1>1, <1>2, InputsRegisterInv, PTL DEF InputsSpec

\* The run and the history keep their types (Run, and the handlers of safeguards).
THEOREM InputsTypeCorrect == InputsSpec => []InputsTypeOK
<1>1. InputsInv => InputsTypeOK
  BY DEF InputsInv
<1> QED BY <1>1, InputsInductive, PTL

\* An evaluation counts a safeguard only if it was effective at some moment between the
\* arrival of the run and its snapshot (Run, Verify, Update).
THEOREM CountedAreInForce == InputsSpec => []CountedWasInForce
<1>1. InputsInv => CountedWasInForce
  BY DEF InputsInv, SeenInForce, CountedWasInForce
<1> QED BY <1>1, InputsInductive, PTL

\* Who has acted may have written.
LEMMA ActedMayHaveWritten ==
  ASSUME InputsInv, NEW q \in Requests, Acted(q)
  PROVE  MayHaveWritten(q)
<1>1. SteadyAt(q) /\ pc[q] # "idle"
  BY DEF InputsInv, Steady, Acted
<1>2. call[q] # None
  BY <1>1, CallFields DEF SteadyAt
<1> QED BY <1>1, <1>2 DEF Acted, MayHaveWritten, SteadyAt

\* Once an invalidation was answered no later run counts the safeguard, unless it was
\* verified or restored at the same time or since (Invalidate, Update, Run).
THEOREM InvalidationsAreSeen == InputsSpec => []InvalidationIsSeen
<1>1. InputsInv => InvalidationIsSeen
  <2> SUFFICES ASSUME InputsInv, counted, NEW r \in precedeRun, call[r].kind = "invalidate"
               PROVE  BroughtBack(r)
    BY DEF InvalidationIsSeen
  <2>1. PICK q \in Requests :
          Acted(q) /\ call[q].kind \in {"verify", "restore"} /\ q \notin precede[r]
    BY DEF InputsInv, Invalidations, Back
  <2> QED BY <2>1, ActedMayHaveWritten DEF BroughtBack
<1> QED BY <1>1, InputsInductive, PTL

\* A reason that is no longer in the note was lost to a later request, or to one under way
\* at the same time (Invalidate and Restore append to the note they read, Update writes it
\* back).
THEOREM ReasonsKept == InputsSpec => []ReasonsAreKept
<1>1. InputsInv => ReasonsAreKept
  <2> SUFFICES ASSUME InputsInv, NEW r \in Requests, answer[r] = "ok",
                      call[r].kind \in {"create", "invalidate", "restore"},
                      r \notin safeguard.note
               PROVE  \E q \in Requests \ {r} :
                        /\ MayHaveWritten(q) /\ q \notin precede[r]
                        /\ Rewrites(q) \/ r \notin precede[q]
    BY DEF ReasonsAreKept
  <2>1. Blamed(r)
    BY DEF InputsInv, Reasons, Wrote, KeptNote
  <2> QED BY <2>1, ActedMayHaveWritten DEF Blamed
<1> QED BY <1>1, InputsInductive, PTL
=============================================================================
