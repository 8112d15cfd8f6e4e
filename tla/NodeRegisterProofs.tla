-------------------------- MODULE NodeRegisterProofs --------------------------
(***************************************************************************)
(* Proofs about NodeRegister, for any number of requests, users and codes. *)
(***************************************************************************)
EXTENDS NodeRegister, TLAPS

Row(code, design, status) == [code |-> code, design |-> design, status |-> status]

Entered(r) == \E a \in audits : a.request = r

\* What a handler knows at each of its statements, and what a request leaves behind.
ReadyAt(r) ==
  /\ pc[r] = "idle" <=> call[r] = None
  /\ pc[r] # "idle" => call[r] \in Calls
  /\ pc[r] \in {"findCode", "insert"} => call[r].kind = "create"
  /\ pc[r] = "insert" => copy[r] = Row(call[r].code, r, "active")
  /\ pc[r] = "read" => call[r].kind # "create"
  /\ pc[r] = "write" =>
       call[r].kind = "update" /\ copy[r] \in Rows /\ nodes[call[r].node] # None
  /\ pc[r] = "deactivate" => call[r].kind = "deactivate" /\ nodes[call[r].node] # None
  /\ pc[r] = "insertScenario" => call[r].kind = "addScenario" /\ nodes[call[r].node] # None
  /\ nodes[r] # None => pc[r] \in {"audit", "done"} /\ call[r].kind = "create"
  /\ scenarios[r] # None => /\ pc[r] \in {"audit", "done"} /\ call[r].kind = "addScenario"
                            /\ scenarios[r] = call[r].node
  /\ answer[r] # "pending" => pc[r] = "done"
  /\ answer[r] = "conflict" /\ call[r].kind = "create" =>
       \E n \in Nodes \ {r} : nodes[n] # None /\ nodes[n].code = call[r].code
  /\ Entered(r) => pc[r] \in {"reload", "done"}
  /\ \A q \in precede[r] : pc[q] = "done"

Ready == \A r \in Requests : ReadyAt(r)

UniqueCodes ==
  \A m, n \in Nodes : m # n /\ nodes[m] # None /\ nodes[n] # None => nodes[m].code # nodes[n].code

\* A deactivation that has taken effect, and has not failed since without an entry.
Recorded(r) == pc[r] \in {"audit", "reload"} \/ answer[r] = "ok" \/ Entered(r)

\* Since q was sent, somebody activated node n.
Activated(q, n) == \E u \in Requests : Activation(u, n) /\ u \notin precede[q]

\* Deactivation q of n has taken effect: n is inactive or was activated since.
Effective(q, n) == nodes[n] # None /\ (nodes[n].status = "inactive" \/ Activated(q, n))

Apart(q, p, n) == ActivatedBetween(q, p, n) \/ ActivatedBetween(p, q, n)

\* Deactivations that have taken effect hold until an activation, which is between any two.
Once ==
  \A n \in Nodes : \A q \in Deactivations(n) : Recorded(q) =>
    /\ Effective(q, n)
    /\ \A p \in Deactivations(n) : Recorded(p) => p = q \/ Apart(q, p, n)

\* A scenario is added after a deactivation only if there was an activation between.
HeldAt(r) ==
  /\ call[r] # None /\ call[r].kind = "addScenario"
  /\ pc[r] = "insertScenario" \/ scenarios[r] # None
  => \A q \in precede[r] : q \in Deactivations(call[r].node) /\ answer[q] = "ok" =>
       ActivatedBetween(q, r, call[r].node)

Inv == TypeOK /\ Ready /\ UniqueCodes /\ Once /\ \A r \in Requests : HeldAt(r)

-----------------------------------------------------------------------------
(* Helpers.                                                                *)

\* The fields of a row, and of a call, have the types their sets give them.
LEMMA RowFields ==
  ASSUME NEW x \in Rows
  PROVE  /\ x.code \in Codes /\ x.design \in Designs /\ x.status \in {"active", "inactive"}
         /\ x # None /\ x = Row(x.code, x.design, x.status)
BY ConstantsAssumption DEF Rows, Row

LEMMA RowTyped ==
  ASSUME NEW c \in Codes, NEW d \in Designs, NEW s \in {"active", "inactive"}
  PROVE  /\ Row(c, d, s) \in Rows /\ Row(c, d, s) # None
         /\ Row(c, d, s).code = c /\ Row(c, d, s).design = d /\ Row(c, d, s).status = s
BY ConstantsAssumption DEF Rows, Row

LEMMA CallFields ==
  ASSUME NEW c \in Calls
  PROVE  /\ c # None /\ c.kind \in {"create", "update", "deactivate", "addScenario"}
         /\ c.kind = "create" => c.code \in Codes
         /\ c.kind # "create" => c.node \in Nodes
         /\ c.kind = "update" => c.status \in {"active", "inactive", None}
<1>1. c # None
  BY ConstantsAssumption
<1>2. CASE c \in CreateCalls
  BY <1>1, <1>2 DEF CreateCalls
<1>3. CASE c \in UpdateCalls
  BY <1>1, <1>3 DEF UpdateCalls
<1>4. CASE c \in DeactivateCalls
  BY <1>1, <1>4 DEF DeactivateCalls
<1>5. CASE c \in ScenarioCalls
  BY <1>1, <1>5 DEF ScenarioCalls
<1> QED BY <1>2, <1>3, <1>4, <1>5 DEF Calls

\* Moving a request on keeps pc and answer in their sets.
LEMMA GotoTyped ==
  ASSUME TypeOK, NEW r \in Requests, NEW st \in Statements, Goto(r, st)
  PROVE  /\ pc' \in [Requests -> Statements \cup {"idle", "done"}]
         /\ answer' \in [Requests -> Statuses]
         /\ pc'[r] = st /\ answer'[r] = answer[r]
         /\ \A q \in Requests : q # r => pc'[q] = pc[q] /\ answer'[q] = answer[q]
BY DEF TypeOK, Goto

LEMMA ReplyTyped ==
  ASSUME TypeOK, NEW r \in Requests, NEW st \in Statuses, Reply(r, st)
  PROVE  /\ pc' \in [Requests -> Statements \cup {"idle", "done"}]
         /\ answer' \in [Requests -> Statuses]
         /\ pc'[r] = "done" /\ answer'[r] = st
         /\ \A q \in Requests : q # r => pc'[q] = pc[q] /\ answer'[q] = answer[q]
BY DEF TypeOK, Reply

\* The initial states satisfy the invariant.
LEMMA InitInv == Init => Inv
<1> SUFFICES ASSUME Init PROVE Inv
  OBVIOUS
<1>1. SeedRow \in Rows
  BY ConstantsAssumption DEF SeedRow, Rows, Designs, Nodes
<1>2. TypeOK
  BY <1>1, ConstantsAssumption DEF Init, TypeOK, Statuses
<1>3. \A n \in Nodes : nodes[n] # None => n = Seed
  BY DEF Init
<1>4. \A r \in Requests : nodes[r] = None
  BY <1>3, ConstantsAssumption DEF Nodes
<1>5. Ready
  BY <1>4 DEF Init, Ready, ReadyAt, Entered
<1>6. UniqueCodes
  BY <1>3 DEF UniqueCodes
<1>7. Once /\ \A r \in Requests : HeldAt(r)
  BY DEF Init, Once, HeldAt, Deactivations
<1> QED BY <1>2, <1>5, <1>6, <1>7 DEF Inv

-----------------------------------------------------------------------------
(* One step.                                                               *)

\* The locals and the traces of request q are left alone.
Untouched(q) ==
  /\ pc'[q] = pc[q] /\ call'[q] = call[q] /\ copy'[q] = copy[q] /\ precede'[q] = precede[q]
  /\ answer'[q] = answer[q] /\ scenarios'[q] = scenarios[q]
  /\ nodes'[q] # None => nodes[q] # None
  /\ Entered(q)' => Entered(q)

\* Nodes stay, with their codes.
Lasting == \A n \in Nodes : nodes[n] # None => nodes'[n] # None /\ nodes'[n].code = nodes[n].code

LEMMA SameNodes ==
  ASSUME Inv, nodes' = nodes PROVE Lasting /\ UniqueCodes'
BY DEF Inv, Lasting, UniqueCodes

LEMMA UntouchedReady ==
  ASSUME NEW q \in Requests, ReadyAt(q), Untouched(q), Lasting,
         \A p \in Requests : pc[p] = "done" => pc'[p] = "done",
         precede[q] \subseteq Requests
  PROVE  ReadyAt(q)'
<1>1. call[q] \in Calls /\ call[q].kind # "create" => call[q].node \in Nodes
  BY CallFields
<1>2. \A n \in Nodes : nodes[n] # None => nodes'[n] # None /\ nodes'[n].code = nodes[n].code
  BY DEF Lasting
<1>3. /\ pc'[q] = "write" => nodes'[call'[q].node] # None
      /\ pc'[q] = "deactivate" => nodes'[call'[q].node] # None
      /\ pc'[q] = "insertScenario" => nodes'[call'[q].node] # None
  BY <1>1, <1>2 DEF ReadyAt, Untouched
<1>4. answer'[q] = "conflict" /\ call'[q].kind = "create" =>
        \E n \in Nodes \ {q} : nodes'[n] # None /\ nodes'[n].code = call'[q].code
  BY <1>2 DEF ReadyAt, Untouched
<1>5. \A p \in precede'[q] : pc'[p] = "done"
  BY DEF ReadyAt, Untouched
<1> QED BY <1>3, <1>4, <1>5 DEF ReadyAt, Untouched

\* A request keeps its call.
CallsLast == \A q \in Requests : call[q] # None => call'[q] = call[q]

\* An activation stays one, and who was answered before it stays so.
ActivationsLast ==
  /\ \A q \in Requests : call[q] # None => precede'[q] = precede[q]
  /\ \A u \in Requests, n \in Nodes : Activation(u, n) => Activation(u, n)'

\* It is so if all requests but r are left alone, and r is not made to forget its copy.
LEMMA ActivationsStay ==
  ASSUME NEW r \in Requests, \A q \in Requests : q # r => Untouched(q), CallsLast,
         call[r] = None \/ precede'[r] = precede[r],
         pc[r] \in {"audit", "reload", "done"} =>
           pc'[r] \in {"audit", "reload", "done"} /\ copy'[r] = copy[r]
  PROVE  ActivationsLast
<1>1. \A q \in Requests : call[q] # None => precede'[q] = precede[q]
  BY DEF Untouched
<1>2. ASSUME NEW u \in Requests, NEW n \in Nodes, Activation(u, n) PROVE Activation(u, n)'
  <2>1. u \in Updates(n)'
    BY <1>2 DEF Activation, Updates, CallsLast
  <2>2. pc'[u] \in {"audit", "reload", "done"} /\ copy'[u] = copy[u]
    BY <1>2 DEF Activation, Untouched
  <2> QED BY <1>2, <2>1, <2>2 DEF Activation
<1> QED BY <1>1, <1>2 DEF ActivationsLast

\* So what is between two requests stays there.
LEMMA BetweenLasts ==
  ASSUME ActivationsLast, NEW q \in Requests, NEW r, NEW n \in Nodes, call[q] # None
  PROVE  /\ ActivatedBetween(q, r, n) => ActivatedBetween(q, r, n)'
         /\ Activated(q, n) => Activated(q, n)'
<1>1. \A u \in Requests : Activation(u, n) =>
        Activation(u, n)' /\ precede'[u] = precede[u]
  BY DEF ActivationsLast, Activation, Updates
<1>2. precede'[q] = precede[q]
  BY DEF ActivationsLast
<1> QED BY <1>1, <1>2 DEF ActivatedBetween, Activated

\* An activation since q, while r is under way, is between them.
LEMMA ActivatedMeanwhile ==
  ASSUME Inv, NEW q, NEW r \in Requests, NEW n, pc[r] # "done", Activated(q, n)
  PROVE  ActivatedBetween(q, r, n)
BY DEF Inv, Ready, ReadyAt, Activated, ActivatedBetween

\* The step of request r preserves the invariant if it does so for r and the nodes.
LEMMA OneStep ==
  ASSUME Inv, NEW r \in Requests, pc[r] # "done", CallsLast, ActivationsLast,
         TypeOK', ReadyAt(r)', UniqueCodes', Once', HeldAt(r)', Lasting,
         \A q \in Requests : q # r => Untouched(q)
  PROVE  Inv'
<1> USE DEF Inv
<1>1. \A p \in Requests : pc[p] = "done" => p # r /\ pc'[p] = "done"
  BY DEF Untouched
<1>2. ASSUME NEW q \in Requests, q # r PROVE ReadyAt(q)'
  <2>1. ReadyAt(q) /\ precede[q] \subseteq Requests
    BY DEF Ready, TypeOK
  <2> QED BY <1>1, <1>2, <2>1, UntouchedReady
<1>3. ASSUME NEW q \in Requests, q # r PROVE HeldAt(q)'
  <2>1. Untouched(q) /\ HeldAt(q) /\ ReadyAt(q) /\ precede[q] \subseteq Requests
    BY <1>3 DEF Ready, TypeOK
  <2> DEFINE n == call[q].node
  <2> SUFFICES ASSUME call[q] # None, call[q].kind = "addScenario",
                      pc[q] = "insertScenario" \/ scenarios[q] # None,
                      NEW p \in precede[q], p \in Deactivations(n)', answer'[p] = "ok"
               PROVE  ActivatedBetween(p, q, n)'
    BY <2>1 DEF HeldAt, Untouched, Deactivations, ActivatedBetween, Activation, Updates
  <2>2. p \in Requests /\ pc[p] = "done" /\ p # r
    BY <1>1, <2>1 DEF ReadyAt
  <2>3. call'[p] = call[p] /\ answer'[p] = answer[p] /\ call'[q] = call[q]
    BY <2>1, <2>2 DEF Untouched
  <2>4. p \in Deactivations(n) /\ answer[p] = "ok" /\ call[p] # None
    BY <2>2, <2>3 DEF Deactivations
  <2>5. n \in Nodes
    BY <2>1, CallFields DEF ReadyAt
  <2>6. ActivatedBetween(p, q, n)
    BY <2>1, <2>4 DEF HeldAt
  <2> QED BY <2>2, <2>3, <2>4, <2>5, <2>6, BetweenLasts
<1> QED BY <1>2, <1>3 DEF Ready

\* Once survives a step after which no more deactivations have taken effect and no node
\* has become active, other than by an activation.
LEMMA OnceStays ==
  ASSUME Inv, CallsLast, ActivationsLast, Lasting,
         \A q \in Requests : call'[q] # None /\ call'[q].kind = "deactivate" /\ Recorded(q)' =>
                               call[q] # None /\ Recorded(q),
         \A n \in Nodes : nodes[n] # None /\ nodes[n].status = "inactive" =>
           \/ nodes'[n].status = "inactive"
           \/ \E u \in Requests : Activation(u, n)' /\ pc[u] # "done"
  PROVE  Once'
<1> SUFFICES ASSUME NEW n \in Nodes, NEW q \in Deactivations(n)', Recorded(q)'
             PROVE  /\ Effective(q, n)'
                    /\ \A p \in Deactivations(n)' : Recorded(p)' => p = q \/ Apart(q, p, n)'
  BY DEF Once
<1>2. ASSUME NEW p \in Deactivations(n)', Recorded(p)' PROVE p \in Deactivations(n) /\ Recorded(p)
  <2>1. p \in Requests /\ call'[p] # None /\ call'[p].kind = "deactivate" /\ call'[p].node = n
    BY DEF Deactivations
  <2>2. call[p] # None /\ Recorded(p)
    BY <1>2, <2>1
  <2> QED BY <2>1, <2>2 DEF CallsLast, Deactivations
<1>3. q \in Requests /\ call[q] # None /\ Effective(q, n)
  BY <1>2 DEF Inv, Once, Deactivations
<1>4. Effective(q, n)'
  <2>1. nodes[n] # None /\ nodes'[n] # None
    BY <1>3 DEF Effective, Lasting
  <2>2. precede'[q] = precede[q] /\ \A u \in precede[q] : pc[u] = "done"
    BY <1>3 DEF ActivationsLast, Inv, Ready, ReadyAt
  <2>3. CASE Activated(q, n)
    BY <1>3, <2>1, <2>3, BetweenLasts DEF Effective
  <2>4. CASE nodes[n].status = "inactive"
    BY <2>1, <2>2, <2>4 DEF Effective, Activated
  <2> QED BY <1>3, <2>3, <2>4 DEF Effective
<1>5. ASSUME NEW p \in Deactivations(n)', Recorded(p)', p # q PROVE Apart(q, p, n)'
  <2>1. p \in Deactivations(n) /\ q \in Deactivations(n) /\ Recorded(p) /\ Recorded(q)
    BY <1>2, <1>5
  <2>2. Apart(q, p, n) /\ p \in Requests /\ call[p] # None
    BY <1>5, <2>1 DEF Inv, Once, Deactivations
  <2> QED BY <1>3, <2>2, BetweenLasts DEF Apart
<1> QED BY <1>4, <1>5

\* What holds of a request that has arrived.
LEMMA Arrived ==
  ASSUME Inv, NEW r \in Requests, pc[r] \in Statements
  PROVE  /\ ReadyAt(r) /\ call[r] \in Calls /\ call[r] # None /\ pc[r] # "done"
         /\ call[r].kind \in {"create", "update", "deactivate", "addScenario"}
         /\ call[r].kind = "create" => call[r].code \in Codes
         /\ call[r].kind # "create" => call[r].node \in Nodes
         /\ call[r].kind = "update" => call[r].status \in {"active", "inactive", None}
BY CallFields DEF Inv, Ready, ReadyAt, Statements

\* A statement of request r that only moves r on, and perhaps reads or enters something.
LEMMA QuietStep ==
  ASSUME Inv, NEW r \in Requests, pc[r] \in Statements,
         TypeOK', ReadyAt(r)', pc'[r] # "insertScenario",
         \A q \in Requests : q # r =>
           pc'[q] = pc[q] /\ answer'[q] = answer[q] /\ copy'[q] = copy[q],
         audits' = audits \/ (pc[r] = "audit" /\ audits' = audits \cup {AuditEntry(r)}),
         call[r].kind = "deactivate" /\ Recorded(r)' => Recorded(r),
         pc[r] \in {"audit", "reload"} => pc'[r] \in {"reload", "done"} /\ copy'[r] = copy[r],
         UNCHANGED <<nodes, scenarios, call, precede>>
  PROVE  Inv'
<1> USE DEF Inv
<1>1. CallsLast /\ Lasting /\ UniqueCodes'
  BY SameNodes DEF CallsLast
<1>2. \A q \in Requests : q # r => (Entered(q)' => Entered(q))
  BY DEF Entered, AuditEntry
<1>3. \A q \in Requests : q # r => Untouched(q)
  BY <1>2 DEF Untouched
<1>4. \A q \in Requests : q # r => (Recorded(q)' => Recorded(q))
  BY <1>2 DEF Recorded
<1>7. pc[r] # "done"
  BY Arrived
<1>8. ActivationsLast
  BY <1>1, <1>3, <1>7, ActivationsStay
<1>5. Once'
  BY <1>1, <1>4, <1>8, OnceStays
<1>6. HeldAt(r)'
  <2> DEFINE n == call[r].node
  <2> SUFFICES ASSUME call[r] # None, call[r].kind = "addScenario", scenarios[r] # None,
                      NEW q \in precede[r], q \in Deactivations(n)', answer'[q] = "ok"
               PROVE  ActivatedBetween(q, r, n)'
    BY DEF HeldAt, Deactivations, ActivatedBetween, Activation, Updates
  <2>1. ReadyAt(r) /\ precede[r] \subseteq Requests /\ n \in Nodes
    BY Arrived DEF TypeOK
  <2>2. q \in Requests /\ q # r
    BY <1>7, <2>1 DEF ReadyAt
  <2>3. q \in Deactivations(n) /\ answer[q] = "ok" /\ call[q] # None
    BY <2>2 DEF Deactivations
  <2>4. ActivatedBetween(q, r, n)
    BY <2>3 DEF HeldAt
  <2> QED BY <1>8, <2>1, <2>2, <2>3, <2>4, BetweenLasts
<1> QED BY <1>1, <1>3, <1>5, <1>6, <1>7, <1>8, OneStep

LEMMA ReceiveStep ==
  ASSUME Inv, NEW r \in Requests, Receive(r) PROVE Inv'
<1> USE DEF Inv
<1>1. PICK c \in Traffic :
        /\ call' = [call EXCEPT ![r] = c]
        /\ IF HasPermission(RoleOf[c.actor], PermissionOf(c.kind))
           THEN Goto(r, IF c.kind = "create" THEN "findCode" ELSE "read")
           ELSE Reply(r, "forbidden")
  BY DEF Receive
<1>2. /\ pc[r] = "idle" /\ precede' = [precede EXCEPT ![r] = {q \in Requests : pc[q] = "done"}]
      /\ UNCHANGED <<nodes, scenarios, audits, seen, copy, faults>>
  BY DEF Receive
<1>3. c \in Calls /\ c # None
  BY ConstantsAssumption, CallFields
<1>4. /\ pc' \in [Requests -> Statements \cup {"idle", "done"}]
      /\ answer' \in [Requests -> Statuses]
      /\ \/ pc'[r] = "done" /\ answer'[r] = "forbidden"
         \/ pc'[r] = "findCode" /\ c.kind = "create" /\ answer'[r] = answer[r]
         \/ pc'[r] = "read" /\ c.kind # "create" /\ answer'[r] = answer[r]
      /\ \A q \in Requests : q # r => pc'[q] = pc[q] /\ answer'[q] = answer[q]
  <2>1. CASE Goto(r, "findCode") /\ c.kind = "create"
    BY <2>1, GotoTyped DEF Statements
  <2>2. CASE Goto(r, "read") /\ c.kind # "create"
    BY <2>2, GotoTyped DEF Statements
  <2>3. CASE Reply(r, "forbidden")
    BY <2>3, ReplyTyped DEF Statuses
  <2> QED BY <1>1, <2>1, <2>2, <2>3
<1>5. /\ call' \in [Requests -> Calls \cup {None}] /\ call'[r] = c
      /\ precede' \in [Requests -> SUBSET Requests]
      /\ precede'[r] = {q \in Requests : pc[q] = "done"}
      /\ \A q \in Requests : q # r => call'[q] = call[q] /\ precede'[q] = precede[q]
  BY <1>1, <1>2, <1>3 DEF TypeOK
<1>6. TypeOK'
  BY <1>2, <1>4, <1>5 DEF TypeOK
<1>7. ReadyAt(r) /\ call[r] = None /\ nodes[r] = None /\ scenarios[r] = None
        /\ answer[r] = "pending" /\ ~Entered(r)
  BY <1>2 DEF Ready, ReadyAt
<1>8. \A q \in precede'[r] : q # r /\ pc'[q] = "done"
  BY <1>2, <1>4, <1>5
<1>9. ~Entered(r)' /\ nodes' = nodes /\ scenarios' = scenarios
  BY <1>2, <1>7 DEF Entered
<1>10. ReadyAt(r)'
  <2>1. pc'[r] \in {"done", "findCode", "read"} /\ answer'[r] \in {"pending", "forbidden"}
    BY <1>4, <1>7
  <2> QED BY <1>3, <1>4, <1>5, <1>7, <1>8, <1>9, <2>1 DEF ReadyAt
<1>11. CallsLast /\ Lasting /\ UniqueCodes'
  BY <1>2, <1>5, <1>7, SameNodes DEF CallsLast
<1>12. \A q \in Requests : q # r => Untouched(q)
  BY <1>2, <1>4, <1>5 DEF Untouched, Entered
<1>13. ~Recorded(r)'
  BY <1>4, <1>7, <1>9 DEF Recorded
<1>16. ActivationsLast
  BY <1>2, <1>7, <1>11, <1>12, ActivationsStay
<1>14. Once'
  <2>1. \A q \in Requests : q # r => (Recorded(q)' => Recorded(q))
    BY <1>12 DEF Untouched, Recorded
  <2> QED BY <1>2, <1>5, <1>11, <1>13, <1>16, <2>1, OnceStays
<1>15. HeldAt(r)'
  BY <1>4, <1>7, <1>9 DEF HeldAt
<1> QED BY <1>2, <1>6, <1>10, <1>11, <1>12, <1>14, <1>15, <1>16, OneStep

LEMMA FindCodeStep ==
  ASSUME Inv, NEW r \in Requests, FindCode(r) PROVE Inv'
<1> USE DEF Inv
<1>1. pc[r] = "findCode" /\ UNCHANGED <<nodes, scenarios, audits, call, seen, precede, faults>>
  BY DEF FindCode
<1>2. /\ ReadyAt(r) /\ call[r] \in Calls /\ call[r].kind = "create" /\ call[r].code \in Codes
      /\ nodes[r] = None /\ pc[r] \in Statements
  BY <1>1, Arrived DEF ReadyAt, Statements
<1>3. \A q \in precede[r] : q # r /\ pc[q] = "done" /\ q \in Requests
  BY <1>1, <1>2 DEF ReadyAt, TypeOK
<1>4. CASE CodeTaken(call[r].code)
  <2>1. Reply(r, "conflict") /\ copy' = copy
    BY <1>4 DEF FindCode
  <2>2. /\ pc' \in [Requests -> Statements \cup {"idle", "done"}]
        /\ answer' \in [Requests -> Statuses] /\ pc'[r] = "done" /\ answer'[r] = "conflict"
        /\ \A q \in Requests : q # r => pc'[q] = pc[q] /\ answer'[q] = answer[q]
    BY <2>1, ReplyTyped DEF Statuses
  <2>3. TypeOK'
    BY <1>1, <2>1, <2>2 DEF TypeOK
  <2>4. \E n \in Nodes \ {r} : nodes[n] # None /\ nodes[n].code = call[r].code
    BY <1>2, <1>4 DEF CodeTaken
  <2>5. ReadyAt(r)'
    BY <1>1, <1>2, <1>3, <2>2, <2>4 DEF ReadyAt, Entered
  <2> QED BY <1>1, <1>2, <2>1, <2>2, <2>3, <2>5, QuietStep
<1>5. CASE ~CodeTaken(call[r].code)
  <2> DEFINE x == Row(call[r].code, r, "active")
  <2>1. Goto(r, "insert") /\ copy' = [copy EXCEPT ![r] = x]
    BY <1>5 DEF FindCode, Row
  <2>2. x \in Rows
    BY <1>2, RowTyped DEF Designs, Nodes
  <2>3. /\ pc' \in [Requests -> Statements \cup {"idle", "done"}]
        /\ answer' \in [Requests -> Statuses] /\ pc'[r] = "insert" /\ answer'[r] = answer[r]
        /\ \A q \in Requests : q # r => pc'[q] = pc[q] /\ answer'[q] = answer[q]
    BY <2>1, GotoTyped DEF Statements
  <2> HIDE DEF x
  <2>4. copy' \in [Requests -> Rows \cup {None}] /\ copy'[r] = x
          /\ \A q \in Requests : q # r => copy'[q] = copy[q]
    BY <2>1, <2>2 DEF TypeOK
  <2>5. TypeOK'
    BY <1>1, <2>3, <2>4 DEF TypeOK
  <2>6. ReadyAt(r)'
    BY <1>1, <1>2, <1>3, <2>3, <2>4 DEF ReadyAt, Entered, x
  <2> QED BY <1>1, <1>2, <2>3, <2>4, <2>5, <2>6, QuietStep
<1> QED BY <1>4, <1>5

\* A handler that answers and changes nothing else.
LEMMA RefuseStep ==
  ASSUME Inv, NEW r \in Requests, pc[r] \in Statements, NEW st \in Statuses, Reply(r, st),
         st = "ok" => pc[r] = "reload",
         st = "conflict" /\ call[r].kind = "create" =>
           \E n \in Nodes \ {r} : nodes[n] # None /\ nodes[n].code = call[r].code,
         seen' \in [Requests -> Rows \cup {None}], copy' \in [Requests -> Rows \cup {None}],
         \A q \in Requests : q # r => copy'[q] = copy[q],
         pc[r] \in {"audit", "reload"} => copy' = copy,
         faults' \in 0..MaxFaults,
         UNCHANGED <<nodes, scenarios, audits, call, precede>>
  PROVE  Inv'
<1> USE DEF Inv
<1>1. /\ pc' \in [Requests -> Statements \cup {"idle", "done"}]
      /\ answer' \in [Requests -> Statuses] /\ pc'[r] = "done" /\ answer'[r] = st
      /\ \A q \in Requests : q # r => pc'[q] = pc[q] /\ answer'[q] = answer[q]
  BY ReplyTyped
<1>2. TypeOK'
  BY <1>1 DEF TypeOK
<1>3. ReadyAt(r) /\ call[r] \in Calls /\ call[r] # None
  BY Arrived
<1>4. \A q \in precede[r] : q \in Requests /\ pc'[q] = "done"
  BY <1>1, <1>3 DEF ReadyAt, TypeOK
<1>5. ReadyAt(r)'
  BY <1>1, <1>3, <1>4 DEF ReadyAt, Entered, Statements
<1>6. Recorded(r)' => Recorded(r)
  BY <1>1 DEF Recorded, Entered
<1> QED BY <1>1, <1>2, <1>5, <1>6, QuietStep

LEMMA InsertStep ==
  ASSUME Inv, NEW r \in Requests, Insert(r) PROVE Inv'
<1> USE DEF Inv
<1>1. /\ pc[r] = "insert" /\ pc[r] \in Statements
      /\ UNCHANGED <<scenarios, audits, call, seen, copy, precede, faults>>
  BY DEF Insert, Statements, locals
<1>2. /\ ReadyAt(r) /\ call[r] \in Calls /\ call[r] # None /\ call[r].kind = "create"
      /\ call[r].code \in Codes /\ nodes[r] = None /\ r \in Nodes
      /\ copy[r] = Row(call[r].code, r, "active") /\ ~Entered(r)
  BY <1>1, Arrived DEF ReadyAt, Nodes
<1>3. CASE CodeTaken(call[r].code)
  <2>1. Reply(r, "conflict") /\ nodes' = nodes
    BY <1>3 DEF Insert
  <2>2. \E n \in Nodes \ {r} : nodes[n] # None /\ nodes[n].code = call[r].code
    BY <1>2, <1>3 DEF CodeTaken
  <2> QED BY <1>1, <2>1, <2>2, RefuseStep DEF TypeOK, Statuses
<1>4. CASE ~CodeTaken(call[r].code)
  <2>1. Goto(r, "audit") /\ nodes' = [nodes EXCEPT ![r] = copy[r]]
    BY <1>4 DEF Insert
  <2>2. copy[r] \in Rows /\ copy[r] # None /\ copy[r].code = call[r].code
    BY <1>2, RowTyped DEF Designs
  <2>3. nodes' \in [Nodes -> Rows \cup {None}] /\ nodes'[r] = copy[r]
          /\ \A n \in Nodes : n # r => nodes'[n] = nodes[n]
    BY <1>2, <2>1, <2>2 DEF TypeOK
  <2>4. /\ pc' \in [Requests -> Statements \cup {"idle", "done"}]
        /\ answer' \in [Requests -> Statuses] /\ pc'[r] = "audit" /\ answer'[r] = answer[r]
        /\ \A q \in Requests : q # r => pc'[q] = pc[q] /\ answer'[q] = answer[q]
    BY <2>1, GotoTyped DEF Statements
  <2>5. TypeOK'
    BY <1>1, <2>3, <2>4 DEF TypeOK
  <2>6. CallsLast /\ Lasting
    BY <1>1, <1>2, <2>3 DEF CallsLast, Lasting
  <2>7. UniqueCodes'
    BY <1>4, <2>2, <2>3 DEF UniqueCodes, CodeTaken
  <2>8. \A q \in Requests : q # r => Untouched(q)
    <3>1. \A q \in Requests : q \in Nodes
      BY DEF Nodes
    <3> QED BY <1>1, <2>3, <2>4, <3>1 DEF Untouched, Entered
  <2>12. ActivationsLast
    BY <1>1, <2>6, <2>8, ActivationsStay
  <2>9. ReadyAt(r)'
    <3>1. \A q \in precede'[r] : q \in Requests /\ pc'[q] = "done"
      BY <1>1, <1>2, <2>4 DEF ReadyAt, TypeOK
    <3> QED BY <1>1, <1>2, <2>4, <3>1 DEF ReadyAt, Entered
  <2>10. Once'
    <3>1. \A q \in Requests : q # r => (Recorded(q)' => Recorded(q))
      BY <2>8 DEF Untouched, Recorded
    <3>2. \A n \in Nodes : nodes[n] # None => nodes'[n] = nodes[n]
      BY <1>2, <2>3
    <3> QED BY <1>1, <1>2, <2>6, <2>12, <3>1, <3>2, OnceStays
  <2>11. HeldAt(r)'
    BY <1>1, <1>2 DEF HeldAt
  <2> QED BY <1>1, <1>2, <2>4, <2>5, <2>6, <2>7, <2>8, <2>9, <2>10, <2>11,
              <2>12, OneStep DEF Statements
<1> QED BY <1>3, <1>4

\* What Update writes is a row.
LEMMA EditedIsRow ==
  ASSUME NEW r \in Requests, NEW x \in Rows, call[r] \in Calls, call[r].kind = "update"
  PROVE  Edited(r, x) \in Rows
<1>1. x.code \in Codes /\ x.design \in Designs /\ x.status \in {"active", "inactive"}
        /\ call[r].status \in {"active", "inactive", None} /\ r \in Designs
  BY RowFields, CallFields DEF Designs, Nodes
<1> DEFINE d == IF call[r].design THEN r ELSE x.design
           st == IF call[r].status = None THEN x.status ELSE call[r].status
<1>2. d \in Designs /\ st \in {"active", "inactive"}
  BY <1>1
<1>3. Edited(r, x) = [code |-> x.code, design |-> d, status |-> st]
  BY DEF Edited
<1> HIDE DEF d, st
<1> QED BY <1>1, <1>2, <1>3 DEF Rows

LEMMA ReadStep ==
  ASSUME Inv, NEW r \in Requests, Read(r) PROVE Inv'
<1> USE DEF Inv
<1> DEFINE row == nodes[call[r].node]
<1>1. /\ pc[r] = "read" /\ pc[r] \in Statements
      /\ UNCHANGED <<nodes, scenarios, audits, call, precede, faults>>
  BY DEF Read, Statements
<1>2. /\ ReadyAt(r) /\ call[r] \in Calls /\ call[r] # None /\ call[r].node \in Nodes
      /\ call[r].kind \in {"update", "deactivate", "addScenario"}
      /\ nodes[r] = None /\ scenarios[r] = None /\ answer[r] = "pending" /\ ~Entered(r)
  BY <1>1, Arrived DEF ReadyAt
<1>3. \A q \in precede[r] : q # r /\ pc[q] = "done" /\ q \in Requests
  BY <1>1, <1>2 DEF ReadyAt, TypeOK
<1>4. CASE row = None
  <2>1. Reply(r, "notFound") /\ UNCHANGED <<seen, copy>>
    BY <1>4 DEF Read
  <2> QED BY <1>1, <2>1, RefuseStep DEF TypeOK, Statuses
<1>5. CASE row # None
  <2>1. row \in Rows /\ seen' = [seen EXCEPT ![r] = row]
          /\ (ReadToUpdate(r, row) \/ ReadToDeactivate(r, row) \/ ReadToAddScenario(r, row))
    BY <1>2, <1>5 DEF Read, TypeOK
  <2>2. seen' \in [Requests -> Rows \cup {None}]
    BY <2>1 DEF TypeOK
  <2>3. CASE ReadToUpdate(r, row)
    <3>1. /\ call[r].kind = "update" /\ Goto(r, "write")
          /\ copy' = [copy EXCEPT ![r] = Edited(r, row)] /\ Edited(r, row) \in Rows
      BY <1>2, <2>1, <2>3, EditedIsRow DEF ReadToUpdate
    <3>2. copy' \in [Requests -> Rows \cup {None}] /\ copy'[r] \in Rows
            /\ \A q \in Requests : q # r => copy'[q] = copy[q]
      BY <3>1 DEF TypeOK
    <3>3. /\ pc' \in [Requests -> Statements \cup {"idle", "done"}]
          /\ answer' \in [Requests -> Statuses] /\ pc'[r] = "write" /\ answer'[r] = answer[r]
          /\ \A q \in Requests : q # r => pc'[q] = pc[q] /\ answer'[q] = answer[q]
      BY <3>1, GotoTyped DEF Statements
    <3>4. TypeOK'
      BY <1>1, <2>2, <3>2, <3>3 DEF TypeOK
    <3>5. ReadyAt(r)'
      BY <1>1, <1>2, <1>3, <1>5, <3>1, <3>2, <3>3 DEF ReadyAt, Entered
    <3> QED BY <1>1, <3>1, <3>2, <3>3, <3>4, <3>5, QuietStep
  <2>4. CASE ReadToDeactivate(r, row)
    <3> DEFINE x == Row(row.code, row.design, "inactive")
    <3>1. /\ call[r].kind = "deactivate" /\ copy' = [copy EXCEPT ![r] = x]
          /\ Goto(r, "deactivate") \/ Reply(r, "stateTransition")
      BY <2>4 DEF ReadToDeactivate, Row
    <3>2. x \in Rows
      BY <2>1, RowFields, RowTyped
    <3> HIDE DEF x
    <3>3. copy' \in [Requests -> Rows \cup {None}] /\ copy'[r] \in Rows
            /\ \A q \in Requests : q # r => copy'[q] = copy[q]
      BY <3>1, <3>2 DEF TypeOK
    <3>4. CASE Reply(r, "stateTransition")
      BY <1>1, <2>2, <3>3, <3>4, RefuseStep DEF TypeOK, Statuses
    <3>5. CASE Goto(r, "deactivate")
      <4>1. /\ pc' \in [Requests -> Statements \cup {"idle", "done"}]
            /\ answer' \in [Requests -> Statuses] /\ pc'[r] = "deactivate" /\ answer'[r] = answer[r]
            /\ \A q \in Requests : q # r => pc'[q] = pc[q] /\ answer'[q] = answer[q]
        BY <3>5, GotoTyped DEF Statements
      <4>2. TypeOK'
        BY <1>1, <2>2, <3>3, <4>1 DEF TypeOK
      <4>3. ReadyAt(r)'
        BY <1>1, <1>2, <1>3, <1>5, <3>1, <4>1 DEF ReadyAt, Entered
      <4>4. ~Recorded(r)'
        BY <1>1, <1>2, <4>1 DEF Recorded, Entered
      <4> QED BY <1>1, <3>3, <4>1, <4>2, <4>3, <4>4, QuietStep
    <3> QED BY <3>1, <3>4, <3>5
  <2>5. CASE ReadToAddScenario(r, row)
    <3>1. /\ call[r].kind = "addScenario" /\ copy' = copy
          /\ IF row.status = "active" THEN Goto(r, "insertScenario") ELSE Reply(r, "conflict")
      BY <2>5 DEF ReadToAddScenario
    <3>2. CASE row.status # "active"
      BY <1>1, <2>2, <3>1, <3>2, RefuseStep DEF TypeOK, Statuses
    <3>3. CASE row.status = "active"
      <4>1. /\ pc' \in [Requests -> Statements \cup {"idle", "done"}]
            /\ answer' \in [Requests -> Statuses]
            /\ pc'[r] = "insertScenario" /\ answer'[r] = answer[r]
            /\ \A q \in Requests : q # r => pc'[q] = pc[q] /\ answer'[q] = answer[q]
        BY <3>1, <3>3, GotoTyped DEF Statements
      <4>2. TypeOK'
        BY <1>1, <2>2, <3>1, <4>1 DEF TypeOK
      <4>3. ReadyAt(r)'
        BY <1>1, <1>2, <1>3, <1>5, <3>1, <4>1 DEF ReadyAt, Entered
      <4>4. CallsLast /\ Lasting /\ UniqueCodes'
        BY <1>1, SameNodes DEF CallsLast
      <4>5. \A q \in Requests : q # r => Untouched(q)
        BY <1>1, <3>1, <4>1 DEF Untouched, Entered
      <4>8. ActivationsLast
        BY <1>1, <4>4, <4>5, ActivationsStay
      <4>6. Once'
        <5>1. \A q \in Requests : q # r => (Recorded(q)' => Recorded(q))
          BY <4>5 DEF Untouched, Recorded
        <5> QED BY <1>1, <3>1, <4>4, <4>8, <5>1, OnceStays
      <4>7. HeldAt(r)'
        <5> SUFFICES ASSUME NEW n \in Nodes, call[r].node = n,
                            NEW q \in precede[r], q \in Deactivations(n), answer'[q] = "ok"
                     PROVE  ActivatedBetween(q, r, n)'
          BY <1>1, <1>2 DEF HeldAt, Deactivations, ActivatedBetween, Activation, Updates
        <5>1. Recorded(q) /\ q \in Requests /\ call[q] # None
          BY <1>3, <4>1 DEF Recorded, Deactivations
        <5>2. Effective(q, n)
          BY <1>2, <5>1 DEF Once
        <5>3. Activated(q, n)
          BY <3>3, <5>2 DEF Effective
        <5>4. ActivatedBetween(q, r, n)
          BY <1>1, <5>3, ActivatedMeanwhile
        <5> QED BY <1>2, <4>8, <5>1, <5>4, BetweenLasts
      <4> QED BY <1>1, <4>2, <4>3, <4>4, <4>5, <4>6, <4>7, <4>8, OneStep
    <3> QED BY <3>2, <3>3
  <2> QED BY <2>1, <2>3, <2>4, <2>5
<1> QED BY <1>4, <1>5

\* A statement of request r that rewrites the node it is about, with the code it has.
LEMMA RewriteStep ==
  ASSUME Inv, NEW r \in Requests, pc[r] \in {"write", "deactivate"}, Goto(r, "audit"),
         NEW n \in Nodes, n = call[r].node, nodes[n] # None,
         NEW d \in Designs, NEW st \in {"active", "inactive"},
         nodes' = [nodes EXCEPT ![n] = Row(nodes[n].code, d, st)],
         Once',
         UNCHANGED <<scenarios, audits, call, seen, copy, precede, faults>>
  PROVE  Inv'
<1> USE DEF Inv
<1>1. /\ ReadyAt(r) /\ call[r] \in Calls /\ call[r] # None /\ pc[r] # "done"
      /\ pc[r] \in Statements /\ call[r].kind \in {"update", "deactivate"}
      /\ nodes[r] = None /\ scenarios[r] = None /\ answer[r] = "pending" /\ ~Entered(r)
  BY Arrived DEF ReadyAt, Statements
<1>2. nodes[n] \in Rows /\ nodes[n].code \in Codes /\ n # r
  BY <1>1, RowFields DEF TypeOK
<1> DEFINE x == Row(nodes[n].code, d, st)
<1>3. x \in Rows /\ x # None /\ x.code = nodes[n].code
  BY <1>2, RowTyped
<1> HIDE DEF x
<1>4. nodes' = [nodes EXCEPT ![n] = x]
  BY DEF x
<1>5. nodes' \in [Nodes -> Rows \cup {None}] /\ nodes'[n] = x
        /\ \A m \in Nodes : m # n => nodes'[m] = nodes[m]
  BY <1>3, <1>4 DEF TypeOK
<1>6. /\ pc' \in [Requests -> Statements \cup {"idle", "done"}]
      /\ answer' \in [Requests -> Statuses] /\ pc'[r] = "audit" /\ answer'[r] = answer[r]
      /\ \A q \in Requests : q # r => pc'[q] = pc[q] /\ answer'[q] = answer[q]
  BY GotoTyped DEF Statements
<1>7. TypeOK'
  BY <1>5, <1>6 DEF TypeOK
<1>8. CallsLast /\ Lasting
  BY <1>3, <1>5 DEF CallsLast, Lasting
<1>9. \A m \in Nodes : nodes'[m] # None => nodes[m] # None /\ nodes'[m].code = nodes[m].code
  BY <1>3, <1>5
<1>10. UniqueCodes'
  BY <1>9 DEF UniqueCodes
<1>11. \A q \in Requests : q # r => Untouched(q)
  <2>1. \A q \in Requests : q \in Nodes
    BY DEF Nodes
  <2> QED BY <1>6, <1>9, <2>1 DEF Untouched, Entered
<1>12. ReadyAt(r)'
  <2>1. \A q \in precede[r] : q \in Requests /\ pc'[q] = "done"
    BY <1>1, <1>6 DEF ReadyAt, TypeOK
  <2>2. nodes'[r] = None /\ ~Entered(r)'
    BY <1>1, <1>2, <1>5 DEF Entered, Nodes
  <2> QED BY <1>1, <1>6, <2>1, <2>2 DEF ReadyAt
<1>13. HeldAt(r)'
  BY <1>1 DEF HeldAt
<1>14. ActivationsLast
  BY <1>8, <1>11, ActivationsStay
<1> QED BY <1>1, <1>7, <1>8, <1>10, <1>11, <1>12, <1>13, <1>14, OneStep

LEMMA WriteStep ==
  ASSUME Inv, NEW r \in Requests, Write(r) PROVE Inv'
<1> USE DEF Inv
<1>1. PICK n \in Nodes : n = call[r].node /\ nodes[n] # None /\ call[r].kind = "update"
                        /\ copy[r] \in Rows /\ call[r] # None
  BY Arrived DEF Write, Statements, ReadyAt
<1>2. /\ pc[r] = "write" /\ Goto(r, "audit")
      /\ nodes' = [nodes EXCEPT ![n] = Row(nodes[n].code, copy[r].design, copy[r].status)]
      /\ UNCHANGED <<scenarios, audits, call, seen, copy, precede, faults>>
  BY <1>1 DEF Write, Row, locals
<1>3. copy[r].design \in Designs /\ copy[r].status \in {"active", "inactive"}
  BY <1>1, RowFields
<1>4. Once'
  <2>1. r \in Updates(n)' /\ \A m \in Nodes : m # n => nodes'[m] = nodes[m]
    BY <1>1, <1>2 DEF Updates, TypeOK
  <2>2. \A q \in Requests : q # r => (Recorded(q)' => Recorded(q))
    BY <1>2, GotoTyped DEF Recorded, Entered, Statements
  <2>6. pc'[r] = "audit" /\ \A q \in Requests : q # r => pc'[q] = pc[q]
    BY <1>2, GotoTyped DEF Statements
  <2>7. ActivationsLast
    BY <1>2, <2>6 DEF ActivationsLast, Activation, Updates
  <2>3. CallsLast
    BY <1>2 DEF CallsLast
  <2>4. Lasting
    <3>1. nodes[n] \in Rows
      BY <1>1 DEF TypeOK
    <3>2. nodes'[n] = Row(nodes[n].code, copy[r].design, copy[r].status)
      BY <1>2 DEF TypeOK
    <3>3. nodes'[n] # None /\ nodes'[n].code = nodes[n].code
      BY <1>3, <3>1, <3>2, RowFields, RowTyped
    <3> QED BY <2>1, <3>3 DEF Lasting
  <2>5. nodes'[n].status = "inactive" \/ (Activation(r, n)' /\ pc[r] # "done")
    <3>1. nodes[n].code \in Codes /\ nodes'[n] = Row(nodes[n].code, copy[r].design, copy[r].status)
      BY <1>1, <1>2, RowFields DEF TypeOK
    <3>2. nodes'[n].status = copy[r].status /\ copy[r] # None /\ copy'[r] = copy[r]
      BY <1>1, <1>2, <1>3, <3>1, RowTyped, RowFields
    <3> QED BY <1>2, <1>3, <2>1, <2>6, <3>2 DEF Activation
  <2> QED BY <1>1, <1>2, <2>1, <2>2, <2>3, <2>4, <2>5, <2>7, OnceStays
<1> QED BY <1>1, <1>2, <1>3, <1>4, RewriteStep

LEMMA DeactivateStep ==
  ASSUME Inv, NEW r \in Requests, Deactivate(r) PROVE Inv'
<1> USE DEF Inv
<1>1. PICK n \in Nodes : n = call[r].node /\ nodes[n] # None /\ call[r].kind = "deactivate"
                        /\ call[r] # None
  BY Arrived DEF Deactivate, Statements, ReadyAt
<1>2. /\ pc[r] = "deactivate" /\ pc[r] \in Statements
      /\ UNCHANGED <<scenarios, audits, call, seen, copy, precede, faults>>
  BY DEF Deactivate, Statements, locals
<1>3. CASE nodes[n].status # "active"
  <2>1. Reply(r, "conflict") /\ nodes' = nodes
    BY <1>1, <1>3 DEF Deactivate
  <2> QED BY <1>1, <1>2, <2>1, RefuseStep DEF TypeOK, Statuses
<1>4. CASE nodes[n].status = "active"
  <2>1. /\ Goto(r, "audit")
        /\ nodes' = [nodes EXCEPT ![n] = Row(nodes[n].code, nodes[n].design, "inactive")]
    BY <1>1, <1>4 DEF Deactivate, Row
  <2>2. nodes[n] \in Rows /\ nodes[n].code \in Codes /\ nodes[n].design \in Designs
    BY <1>1, RowFields DEF TypeOK
  <2>3. /\ nodes'[n] = Row(nodes[n].code, nodes[n].design, "inactive")
        /\ \A m \in Nodes : m # n => nodes'[m] = nodes[m]
    BY <2>1 DEF TypeOK
  <2>4. nodes'[n] # None /\ nodes'[n].status = "inactive"
    BY <2>2, <2>3, RowTyped
  <2>5. \A q \in Requests : q # r => (Recorded(q)' => Recorded(q))
    BY <1>2, <2>1, GotoTyped DEF Recorded, Entered, Statements
  <2>7. pc'[r] = "audit" /\ \A q \in Requests : q # r => pc'[q] = pc[q]
    BY <2>1, GotoTyped DEF Statements
  <2>8. ActivationsLast
    BY <1>2, <2>7 DEF ActivationsLast, Activation, Updates
  <2>9. \A m \in Nodes : Deactivations(m)' = Deactivations(m)
    BY <1>2 DEF Deactivations
  <2>10. ASSUME NEW p \in Deactivations(n), p # r, Recorded(p)' PROVE Apart(p, r, n)'
    <3>1. p \in Requests /\ call[p] # None /\ Recorded(p)
      BY <2>5, <2>10 DEF Deactivations
    <3>2. Activated(p, n)
      BY <1>4, <2>10, <3>1 DEF Once, Effective
    <3>3. ActivatedBetween(p, r, n)
      BY <1>2, <3>2, ActivatedMeanwhile
    <3> QED BY <2>8, <3>1, <3>3, BetweenLasts DEF Apart
  <2>6. Once'
    <3> SUFFICES ASSUME NEW m \in Nodes, NEW q \in Deactivations(m), Recorded(q)'
                 PROVE  /\ Effective(q, m)'
                        /\ \A p \in Deactivations(m) : Recorded(p)' => p = q \/ Apart(q, p, m)'
      BY <2>9 DEF Once
    <3>1. q \in Requests /\ call[q] # None /\ (m = n \/ q # r)
      BY <1>1 DEF Deactivations
    <3>2. Effective(q, m)'
      <4>1. CASE m = n
        BY <2>4, <4>1 DEF Effective
      <4>2. CASE m # n
        <5>1. Effective(q, m) /\ nodes'[m] = nodes[m]
          BY <2>3, <2>5, <3>1, <4>2 DEF Once
        <5> QED BY <2>8, <3>1, <5>1, BetweenLasts DEF Effective
      <4> QED BY <4>1, <4>2
    <3>3. ASSUME NEW p \in Deactivations(m), Recorded(p)', p # q PROVE Apart(q, p, m)'
      <4>1. p \in Requests /\ call[p] # None /\ (m = n \/ p # r)
        BY <1>1 DEF Deactivations
      <4>2. CASE p = r
        BY <2>10, <3>3, <4>1, <4>2 DEF Apart
      <4>3. CASE q = r
        BY <2>10, <3>1, <3>3, <4>3 DEF Apart
      <4>4. CASE p # r /\ q # r
        <5>1. Apart(q, p, m)
          BY <2>5, <3>1, <3>3, <4>1, <4>4 DEF Once
        <5> QED BY <2>8, <3>1, <4>1, <5>1, BetweenLasts DEF Apart
      <4> QED BY <4>2, <4>3, <4>4
    <3> QED BY <3>2, <3>3
  <2> QED BY <1>1, <1>2, <2>1, <2>2, <2>6, RewriteStep
<1> QED BY <1>3, <1>4

LEMMA InsertScenarioStep ==
  ASSUME Inv, NEW r \in Requests, InsertScenario(r) PROVE Inv'
<1> USE DEF Inv
<1>1. /\ pc[r] = "insertScenario" /\ pc[r] \in Statements /\ Goto(r, "audit")
      /\ scenarios' = [scenarios EXCEPT ![r] = call[r].node]
      /\ UNCHANGED <<nodes, audits, call, seen, copy, precede, faults>>
  BY DEF InsertScenario, Statements, locals
<1>2. /\ ReadyAt(r) /\ call[r] \in Calls /\ call[r] # None /\ pc[r] # "done"
      /\ call[r].kind = "addScenario" /\ call[r].node \in Nodes
      /\ nodes[r] = None /\ answer[r] = "pending" /\ ~Entered(r)
  BY <1>1, Arrived DEF ReadyAt
<1>3. /\ scenarios' \in [Requests -> Nodes \cup {None}] /\ scenarios'[r] = call[r].node
      /\ \A q \in Requests : q # r => scenarios'[q] = scenarios[q]
  BY <1>1, <1>2 DEF TypeOK
<1>4. /\ pc' \in [Requests -> Statements \cup {"idle", "done"}]
      /\ answer' \in [Requests -> Statuses] /\ pc'[r] = "audit" /\ answer'[r] = answer[r]
      /\ \A q \in Requests : q # r => pc'[q] = pc[q] /\ answer'[q] = answer[q]
  BY <1>1, GotoTyped DEF Statements
<1>5. TypeOK'
  BY <1>1, <1>3, <1>4 DEF TypeOK
<1>6. CallsLast /\ Lasting /\ UniqueCodes'
  BY <1>1, SameNodes DEF CallsLast
<1>7. \A q \in Requests : q # r => Untouched(q)
  BY <1>1, <1>3, <1>4 DEF Untouched, Entered
<1>8. \A q \in precede[r] : q \in Requests /\ pc[q] = "done" /\ q # r
  BY <1>1, <1>2 DEF ReadyAt, TypeOK
<1>9. ReadyAt(r)'
  BY <1>1, <1>2, <1>3, <1>4, <1>8 DEF ReadyAt, Entered
<1>12. ActivationsLast
  BY <1>1, <1>6, <1>7, ActivationsStay
<1>10. Once'
  <2>1. \A q \in Requests : q # r => (Recorded(q)' => Recorded(q))
    BY <1>7 DEF Untouched, Recorded
  <2> QED BY <1>1, <1>2, <1>6, <1>12, <2>1, OnceStays
<1>11. HeldAt(r)'
  <2> SUFFICES ASSUME NEW n \in Nodes, call[r].node = n,
                      NEW q \in precede[r], q \in Deactivations(n), answer'[q] = "ok"
               PROVE  ActivatedBetween(q, r, n)'
    BY <1>1, <1>2 DEF HeldAt, Deactivations, ActivatedBetween, Activation, Updates
  <2>1. answer[q] = "ok" /\ call[q] # None
    BY <1>4, <1>8 DEF Deactivations
  <2>2. ActivatedBetween(q, r, n)
    BY <1>1, <1>2, <2>1 DEF HeldAt
  <2> QED BY <1>2, <1>8, <1>12, <2>1, <2>2, BetweenLasts
<1> QED BY <1>2, <1>5, <1>6, <1>7, <1>9, <1>10, <1>11, <1>12, OneStep

LEMMA RecordAuditStep ==
  ASSUME Inv, NEW r \in Requests, RecordAudit(r) PROVE Inv'
<1> USE DEF Inv
<1>1. /\ pc[r] = "audit" /\ pc[r] \in Statements /\ audits' = audits \cup {AuditEntry(r)}
      /\ UNCHANGED <<nodes, scenarios, call, seen, copy, precede, faults>>
  BY DEF RecordAudit, Statements, locals
<1>2. /\ ReadyAt(r) /\ call[r] \in Calls /\ call[r] # None /\ answer[r] = "pending"
      /\ call[r].kind \in {"create", "update", "deactivate", "addScenario"}
  BY <1>1, Arrived DEF ReadyAt
<1>3. AuditEntry(r) \in AuditRows
  <2>1. seen[r] \in Rows \cup {None} /\ copy[r] \in Rows \cup {None}
    BY DEF TypeOK
  <2> DEFINE b == IF call[r].kind = "addScenario" THEN None ELSE seen[r]
  <2>2. b \in Rows \cup {None}
    BY <2>1
  <2>3. AuditEntry(r) = [request |-> r, action |-> call[r].kind, before |-> b, after |-> copy[r]]
    BY DEF AuditEntry
  <2> HIDE DEF b
  <2> QED BY <1>2, <2>1, <2>2, <2>3 DEF AuditRows
<1>4. /\ pc' \in [Requests -> Statements \cup {"idle", "done"}]
      /\ answer' \in [Requests -> Statuses]
      /\ \A q \in Requests : q # r => pc'[q] = pc[q] /\ answer'[q] = answer[q]
      /\ \/ pc'[r] = "reload" /\ answer'[r] = "pending"
            /\ call[r].kind \in {"update", "deactivate"}
         \/ pc'[r] = "done" /\ answer'[r] = "ok"
  <2>1. CASE call[r].kind \in {"update", "deactivate"}
    <3>1. Goto(r, "reload")
      BY <2>1 DEF RecordAudit
    <3> QED BY <1>2, <2>1, <3>1, GotoTyped DEF Statements
  <2>2. CASE call[r].kind \notin {"update", "deactivate"}
    <3>1. Reply(r, "ok")
      BY <2>2 DEF RecordAudit
    <3> QED BY <3>1, ReplyTyped DEF Statuses
  <2> QED BY <2>1, <2>2
<1>5. TypeOK'
  BY <1>1, <1>3, <1>4 DEF TypeOK
<1>6. \A q \in precede[r] : q \in Requests /\ pc[q] = "done" /\ q # r
  BY <1>1, <1>2 DEF ReadyAt, TypeOK
<1>7. ReadyAt(r)'
  BY <1>1, <1>2, <1>4, <1>6 DEF ReadyAt
<1>8. Recorded(r)
  BY <1>1 DEF Recorded
<1> QED BY <1>1, <1>4, <1>5, <1>7, <1>8, QuietStep

LEMMA ReloadStep ==
  ASSUME Inv, NEW r \in Requests, Reload(r) PROVE Inv'
<1>1. /\ pc[r] = "reload" /\ pc[r] \in Statements /\ Reply(r, "ok")
      /\ UNCHANGED <<nodes, scenarios, audits, call, seen, copy, precede, faults>>
  BY DEF Reload, Statements, locals
<1> QED BY <1>1, RefuseStep DEF Inv, TypeOK, Statuses

\* A fault is counted while the bound allows it.
LEMMA FaultCount ==
  ASSUME faults \in 0..MaxFaults, faults < MaxFaults, faults' = faults + 1
  PROVE  faults' \in 0..MaxFaults
BY ConstantsAssumption

LEMMA StatementFailsStep ==
  ASSUME Inv, NEW r \in Requests, StatementFails(r) PROVE Inv'
<1>1. /\ pc[r] \in Statements /\ Reply(r, "internal")
      /\ UNCHANGED <<nodes, scenarios, audits, call, seen, copy, precede>>
  BY DEF StatementFails, locals
<1>2. faults' \in 0..MaxFaults
  BY FaultCount DEF StatementFails, Inv, TypeOK
<1> QED BY <1>1, <1>2, RefuseStep DEF Inv, TypeOK, Statuses

LEMMA CrashStep ==
  ASSUME Inv, Crash PROVE Inv'
<1> USE DEF Inv
<1>1. UNCHANGED <<nodes, scenarios, audits, call, seen, copy, precede>>
  BY DEF Crash, locals
<1>2. faults' \in 0..MaxFaults
  BY FaultCount DEF Crash, TypeOK
<1>3. /\ pc' \in [Requests -> Statements \cup {"idle", "done"}]
      /\ answer' \in [Requests -> Statuses]
      /\ \A r \in Requests :
           \/ pc'[r] = pc[r] /\ answer'[r] = answer[r] /\ pc[r] \notin Statements
           \/ pc'[r] = "done" /\ answer'[r] = "lost" /\ pc[r] \in Statements
  BY DEF Crash, TypeOK, Statuses
<1>4. TypeOK'
  BY <1>1, <1>2, <1>3 DEF TypeOK
<1>5. ASSUME NEW r \in Requests PROVE ReadyAt(r)'
  <2>1. ReadyAt(r) /\ pc[r] \in Statements \cup {"idle", "done"} /\ precede[r] \subseteq Requests
    BY DEF Ready, TypeOK
  <2>2. \A q \in precede[r] : pc'[q] = "done"
    BY <1>3, <2>1 DEF ReadyAt, Statements
  <2> QED BY <1>1, <1>3, <2>1, <2>2 DEF ReadyAt, Entered, Statements
<1>6. Lasting /\ CallsLast /\ UniqueCodes'
  BY <1>1, SameNodes DEF CallsLast
<1>7. \A r \in Requests : Recorded(r)' => Recorded(r)
  BY <1>1, <1>3 DEF Recorded, Entered, Statements
<1>10. ActivationsLast
  BY <1>1, <1>3 DEF ActivationsLast, Activation, Updates
<1>8. Once'
  BY <1>1, <1>6, <1>7, <1>10, OnceStays
<1>9. ASSUME NEW r \in Requests PROVE HeldAt(r)'
  <2>1. HeldAt(r) /\ ReadyAt(r) /\ precede[r] \subseteq Requests
    BY DEF Ready, TypeOK
  <2>2. \A q \in precede[r] : answer'[q] = "ok" => answer[q] = "ok"
    BY <1>3, <2>1
  <2>3. pc'[r] # "insertScenario"
    BY <1>3 DEF Statements
  <2>5. /\ UNCHANGED <<call, precede, scenarios>>
        /\ call[r] # None /\ call[r].kind = "addScenario" => call[r].node \in Nodes
    BY <1>1, <2>1, CallFields DEF ReadyAt
  <2> SUFFICES ASSUME NEW n \in Nodes, call[r].node = n, call[r] # None,
                      call[r].kind = "addScenario", scenarios[r] # None,
                      NEW q \in precede[r], q \in Deactivations(n), answer'[q] = "ok"
               PROVE  ActivatedBetween(q, r, n)'
    BY <2>3, <2>5 DEF HeldAt, Deactivations, ActivatedBetween, Activation, Updates
  <2>4. ActivatedBetween(q, r, n) /\ n \in Nodes /\ q \in Requests /\ call[q] # None
    BY <2>1, <2>2, CallFields DEF HeldAt, ReadyAt, Deactivations
  <2> QED BY <1>10, <2>4, BetweenLasts
<1> QED BY <1>4, <1>5, <1>6, <1>8, <1>9 DEF Ready

LEMMA StutterStep ==
  ASSUME Inv, UNCHANGED vars PROVE Inv'
<1> USE DEF Inv
<1>1. UNCHANGED <<nodes, scenarios, audits, pc, call, seen, copy, precede, answer, faults>>
  BY DEF vars, locals
<1>2. Ready'
  BY <1>1 DEF Ready, ReadyAt, Entered
<1>3. Once' /\ \A r \in Requests : HeldAt(r)'
  BY <1>1 DEF Once, HeldAt, Updates, Deactivations, Recorded, Entered, Effective, Apart,
              Activated, ActivatedBetween, Activation
<1> QED BY <1>1, <1>2, <1>3 DEF TypeOK, UniqueCodes

\* Every step preserves the invariant.
LEMMA NextInv == Inv /\ [Next]_vars => Inv'
<1> SUFFICES ASSUME Inv, [Next]_vars PROVE Inv'
  OBVIOUS
<1>1. ASSUME NEW r \in Requests, Step(r) PROVE Inv'
  BY <1>1, ReceiveStep, FindCodeStep, InsertStep, ReadStep, WriteStep, DeactivateStep,
     InsertScenarioStep, RecordAuditStep, ReloadStep, StatementFailsStep
  DEF Step
<1> QED BY <1>1, CrashStep, StutterStep DEF Next, Quiescent

LEMMA Inductive == Spec => []Inv
<1>1. Init => Inv
  BY InitInv
<1>2. Inv /\ [Next]_vars => Inv'
  BY NextInv
<1> QED BY <1>1, <1>2, PTL DEF Spec

-----------------------------------------------------------------------------
(* The theorems.                                                           *)

\* The types hold in all reachable states.
THEOREM TypeCorrect == Spec => []TypeOK
<1>1. Inv => TypeOK
  BY DEF Inv
<1> QED BY <1>1, Inductive, PTL

\* A code names one node, whoever registers it at the same time, and a registration is
\* refused only for a code of another node (Create's check and the unique index).
THEOREM CodesAreUnique == Spec => []CodeNamesOneNode
<1>1. Inv => CodeNamesOneNode
  BY DEF Inv, CodeNamesOneNode, UniqueCodes, Ready, ReadyAt
<1> QED BY <1>1, Inductive, PTL

\* Between two deactivations of a node, one answered and one recorded, an update that
\* leaves it active was under way (Deactivate against itself and Update).
THEOREM OneDeactivation == Spec => []DeactivatedOnce
<1>1. Inv => DeactivatedOnce
  <2> SUFFICES ASSUME Inv, NEW n \in Nodes,
                      NEW q \in Deactivations(n), NEW r \in Deactivations(n),
                      q # r, answer[q] = "ok", \E a \in audits : a.request = r
               PROVE  Apart(q, r, n)
    BY DEF DeactivatedOnce, Apart
  <2>1. Recorded(q) /\ Recorded(r)
    BY DEF Recorded, Entered
  <2> QED BY <2>1 DEF Inv, Once
<1> QED BY <1>1, Inductive, PTL

\* A scenario that is asked for after the deactivation of its node was answered is added
\* only after an update that leaves the node active (Create of the scenario service).
THEOREM DeactivationLasts == Spec => []DeactivationHolds
<1>1. Inv => DeactivationHolds
  <2> SUFFICES ASSUME Inv, NEW r \in Requests, scenarios[r] # None,
                      NEW q \in precede[r], q \in Deactivations(scenarios[r]), answer[q] = "ok"
               PROVE  ActivatedBetween(q, r, scenarios[r])
    BY DEF DeactivationHolds
  <2>1. call[r] # None /\ call[r].kind = "addScenario" /\ scenarios[r] = call[r].node
    BY DEF Inv, Ready, ReadyAt
  <2> QED BY <2>1 DEF Inv, HeldAt
<1> QED BY <1>1, Inductive, PTL

\* The statements of all handlers are steps in the life of the abstract nodes
\* (NodeLifecycle).
THEOREM Refinement == Spec => ImplementsNodeLifecycle
<1>1. Init => Lifecycle!Init
  BY DEF Init, Lifecycle!Init
<1>2. Inv /\ [Next]_vars => [Lifecycle!Next]_<<nodes, scenarios>>
  <2> SUFFICES ASSUME Inv, [Next]_vars, ~UNCHANGED <<nodes, scenarios>> PROVE Lifecycle!Next
    OBVIOUS
  <2>1. PICK r \in Requests : Insert(r) \/ Write(r) \/ Deactivate(r) \/ InsertScenario(r)
    BY DEF Next, Step, Receive, FindCode, Read, RecordAudit, Reload, StatementFails, Crash,
           Quiescent, vars
  <2>2. pc[r] \in Statements
    BY <2>1 DEF Insert, Write, Deactivate, InsertScenario, Statements
  <2>3. /\ ReadyAt(r) /\ call[r] \in Calls
        /\ call[r].kind = "create" => call[r].code \in Codes
        /\ call[r].kind # "create" => call[r].node \in Nodes
    BY <2>2, Arrived
  <2>4. CASE Insert(r)
    <3>1. /\ nodes[r] = None /\ r \in Nodes /\ r \in Designs /\ call[r].code \in Codes
          /\ copy[r] = [code |-> call[r].code, design |-> r, status |-> "active"]
      BY <2>3, <2>4 DEF Insert, ReadyAt, Nodes, Designs, Row
    <3>2. /\ ~CodeTaken(call[r].code) /\ nodes' = [nodes EXCEPT ![r] = copy[r]]
          /\ scenarios' = scenarios
      BY <2>4 DEF Insert
    <3> QED BY <3>1, <3>2 DEF CodeTaken, Lifecycle!Register, Lifecycle!Next
  <2>5. CASE Write(r)
    <3>1. PICK n \in Nodes : n = call[r].node
      BY <2>3, <2>5 DEF Write, ReadyAt
    <3>2. /\ nodes[n] # None /\ copy[r].design \in Designs
          /\ copy[r].status \in {"active", "inactive"}
      BY <2>3, <2>5, <3>1, RowFields DEF Write, ReadyAt
    <3> QED BY <2>5, <3>1, <3>2 DEF Write, Lifecycle!Rewrite, Lifecycle!Next
  <2>6. CASE Deactivate(r)
    <3>1. PICK n \in Nodes : n = call[r].node
      BY <2>3, <2>6 DEF Deactivate, ReadyAt
    <3>2. nodes[n] # None /\ nodes[n].design \in Designs /\ scenarios' = scenarios
      BY <2>3, <2>6, <3>1, RowFields DEF Deactivate, ReadyAt, Inv, TypeOK
    <3>3. nodes' = [nodes EXCEPT ![n] =
                      [code |-> nodes[n].code, design |-> nodes[n].design, status |-> "inactive"]]
      BY <2>1, <2>6, <3>1 DEF Deactivate
    <3> QED BY <3>2, <3>3 DEF Lifecycle!Rewrite, Lifecycle!Next
  <2>7. CASE InsertScenario(r)
    <3>1. PICK n \in Nodes : n = call[r].node
      BY <2>3, <2>7 DEF InsertScenario, ReadyAt
    <3>2. /\ scenarios[r] = None /\ nodes[n] # None
          /\ scenarios' = [scenarios EXCEPT ![r] = n] /\ nodes' = nodes
      BY <2>3, <2>7, <3>1 DEF InsertScenario, ReadyAt
    <3> QED BY <3>2 DEF Lifecycle!AddScenario, Lifecycle!Next
  <2> QED BY <2>1, <2>4, <2>5, <2>6, <2>7
<1> QED BY <1>1, <1>2, Inductive, PTL DEF Spec, ImplementsNodeLifecycle, Lifecycle!Spec
=============================================================================
