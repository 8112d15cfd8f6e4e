----------------------------- MODULE NodeRegister -----------------------------
(***************************************************************************)
(* The handlers Create, Update and Deactivate of                           *)
(* backend/internal/service/process_node_service.go, and Create of         *)
(* backend/internal/service/deviation_scenario_service.go, which adds a    *)
(* scenario to a node.                                                     *)
(*                                                                         *)
(* Each repository call is an SQL statement of its own.  Update writes the *)
(* row it read, with its status, whatever the row has become; Deactivate   *)
(* is conditioned on the status; Create of a scenario checks the status    *)
(* one statement before it inserts.                                        *)
(***************************************************************************)
EXTENDS AccessControl, Naturals

CONSTANTS
  Requests,
  Users,
  RoleOf,     \* RoleOf[u] is the role in the JWT of u
  Codes,      \* values of node_code, in upper case without outer blanks
  Seed,       \* the node the server is seeded with
  SeedCode,   \* its code
  Traffic,    \* the calls clients may make, a subset of Calls
  MaxFaults,  \* bound: statements that fail, and server crashes
  None        \* no row, an absent field

\* A node is named by the request that inserts it.
Nodes == Requests \cup {Seed}

\* The design columns hold the values of the last request that gave some.
Designs == Nodes

\* model.ProcessNode.
Rows == [code : Codes, design : Designs, status : {"active", "inactive"}]

CreateCalls == [kind : {"create"}, actor : Users, code : Codes]
UpdateCalls == [kind : {"update"}, actor : Users, node : Nodes, design : BOOLEAN,
                status : {"active", "inactive", None}]
DeactivateCalls == [kind : {"deactivate"}, actor : Users, node : Nodes]
ScenarioCalls == [kind : {"addScenario"}, actor : Users, node : Nodes]
Calls == CreateCalls \cup UpdateCalls \cup DeactivateCalls \cup ScenarioCalls

AuditRows == [request : Requests, action : {"create", "update", "deactivate", "addScenario"},
              before : Rows \cup {None}, after : Rows \cup {None}]

Statuses == {"pending", "ok", "forbidden", "notFound", "conflict", "stateTransition",
             "internal", "lost"}

Statements == {"findCode", "insert", "read", "write", "deactivate", "insertScenario",
               "audit", "reload"}

ASSUME ConstantsAssumption ==
  /\ MaxFaults \in Nat
  /\ RoleOf \in [Users -> Roles]
  /\ SeedCode \in Codes
  /\ Traffic \subseteq Calls
  /\ Seed \notin Requests
  /\ None \notin Nodes /\ None \notin Rows /\ None \notin Calls

VARIABLES
  nodes,      \* table process_nodes: nodes[n] is the row of node n, or None
  scenarios,  \* table deviation_scenarios: the node of the scenario r added, or None
  audits,     \* table audit_logs, the entries of these handlers
  pc,         \* pc[r]: the next statement of request r, "idle" or "done"
  call,       \* call[r]: the call of r, None before it arrives
  seen,       \* seen[r]: the row as the handler read it, `before` in the code
  copy,       \* copy[r]: the row the handler works on, `node` in the code
  answer,     \* answer[r]: the status of the response
  precede,    \* precede[r]: the requests answered before r arrived (history)
  faults      \* how many faults have occurred

locals == <<call, seen, copy, precede>>
vars == <<nodes, scenarios, audits, pc, locals, answer, faults>>

TypeOK ==
  /\ nodes \in [Nodes -> Rows \cup {None}]
  /\ scenarios \in [Requests -> Nodes \cup {None}]
  /\ audits \subseteq AuditRows
  /\ pc \in [Requests -> Statements \cup {"idle", "done"}]
  /\ call \in [Requests -> Calls \cup {None}]
  /\ seen \in [Requests -> Rows \cup {None}]
  /\ copy \in [Requests -> Rows \cup {None}]
  /\ answer \in [Requests -> Statuses]
  /\ precede \in [Requests -> SUBSET Requests]
  /\ faults \in 0..MaxFaults

SeedRow == [code |-> SeedCode, design |-> Seed, status |-> "active"]

Init ==
  /\ nodes = [n \in Nodes |-> IF n = Seed THEN SeedRow ELSE None]
  /\ scenarios = [r \in Requests |-> None]
  /\ audits = {}
  /\ pc = [r \in Requests |-> "idle"]
  /\ call = [r \in Requests |-> None]
  /\ seen = [r \in Requests |-> None]
  /\ copy = [r \in Requests |-> None]
  /\ answer = [r \in Requests |-> "pending"]
  /\ precede = [r \in Requests |-> {}]
  /\ faults = 0

-----------------------------------------------------------------------------
Goto(r, statement) ==
  /\ pc' = [pc EXCEPT ![r] = statement]
  /\ UNCHANGED answer

Reply(r, status) ==
  /\ pc' = [pc EXCEPT ![r] = "done"]
  /\ answer' = [answer EXCEPT ![r] = status]

\* What the routes of nodes and of scenarios require.
NodePermission == "node:write"
ScenarioPermission == "scenario:write"

PermissionOf(kind) == IF kind = "addScenario" THEN ScenarioPermission ELSE NodePermission

Receive(r) ==
  /\ pc[r] = "idle"
  /\ \E c \in Traffic :
       /\ call' = [call EXCEPT ![r] = c]
       /\ IF HasPermission(RoleOf[c.actor], PermissionOf(c.kind))
          THEN Goto(r, IF c.kind = "create" THEN "findCode" ELSE "read")
          ELSE Reply(r, "forbidden")
  /\ precede' = [precede EXCEPT ![r] = {q \in Requests : pc[q] = "done"}]
  /\ UNCHANGED <<nodes, scenarios, audits, seen, copy, faults>>

(* Create of a node.                                                       *)

CodeTaken(code) == \E n \in Nodes : nodes[n] # None /\ nodes[n].code = code

FindCode(r) ==
  /\ pc[r] = "findCode"
  /\ IF CodeTaken(call[r].code)
     THEN Reply(r, "conflict") /\ UNCHANGED copy
     ELSE /\ copy' = [copy EXCEPT ![r] =
                        [code |-> call[r].code, design |-> r, status |-> "active"]]
          /\ Goto(r, "insert")
  /\ UNCHANGED <<nodes, scenarios, audits, call, seen, precede, faults>>

\* Mutant: node_code has no unique index.
InsertWithoutIndex(r) ==
  /\ pc[r] = "insert"
  /\ nodes' = [nodes EXCEPT ![r] = copy[r]]
  /\ Goto(r, "audit")
  /\ UNCHANGED <<scenarios, audits, locals, faults>>

\* The unique index refuses a second row with the code.
Insert(r) ==
  /\ pc[r] = "insert"
  /\ IF CodeTaken(call[r].code)
     THEN Reply(r, "conflict") /\ UNCHANGED nodes
     ELSE nodes' = [nodes EXCEPT ![r] = copy[r]] /\ Goto(r, "audit")
  /\ UNCHANGED <<scenarios, audits, locals, faults>>

(* Reading, for all other calls.                                           *)

\* What Update makes of the row it read.
Edited(r, row) ==
  [code |-> row.code, design |-> IF call[r].design THEN r ELSE row.design,
   status |-> IF call[r].status = None THEN row.status ELSE call[r].status]

ReadToUpdate(r, row) ==
  /\ call[r].kind = "update"
  /\ copy' = [copy EXCEPT ![r] = Edited(r, row)]
  /\ Goto(r, "write")

ReadToDeactivate(r, row) ==
  /\ call[r].kind = "deactivate"
  /\ copy' = [copy EXCEPT ![r] = [code |-> row.code, design |-> row.design,
                                  status |-> "inactive"]]
  /\ IF row.status = "inactive" THEN Reply(r, "stateTransition") ELSE Goto(r, "deactivate")

\* Mutant: the node may be inactive.
ReadToAddScenarioAnyway(r, row) ==
  /\ call[r].kind = "addScenario"
  /\ UNCHANGED copy
  /\ Goto(r, "insertScenario")

ReadToAddScenario(r, row) ==
  /\ call[r].kind = "addScenario"
  /\ UNCHANGED copy
  /\ IF row.status = "active" THEN Goto(r, "insertScenario") ELSE Reply(r, "conflict")

Read(r) ==
  /\ pc[r] = "read"
  /\ LET row == nodes[call[r].node] IN
     \/ row = None /\ Reply(r, "notFound") /\ UNCHANGED <<seen, copy>>
     \/ /\ row # None
        /\ seen' = [seen EXCEPT ![r] = row]
        /\ ReadToUpdate(r, row) \/ ReadToDeactivate(r, row) \/ ReadToAddScenario(r, row)
  /\ UNCHANGED <<nodes, scenarios, audits, call, precede, faults>>

(* The second statement of each.                                           *)

\* Mutant: the node code is editable, too, and taken from the request.
WriteRenames(r) ==
  /\ pc[r] = "write"
  /\ nodes' = [nodes EXCEPT ![call[r].node] =
       [code |-> SeedCode, design |-> copy[r].design, status |-> copy[r].status]]
  /\ Goto(r, "audit")
  /\ UNCHANGED <<scenarios, audits, locals, faults>>

\* Every column but the code is written from the copy, status included.
Write(r) ==
  /\ pc[r] = "write"
  /\ LET row == nodes[call[r].node] IN
     nodes' = [nodes EXCEPT ![call[r].node] =
       [code |-> row.code, design |-> copy[r].design, status |-> copy[r].status]]
  /\ Goto(r, "audit")
  /\ UNCHANGED <<scenarios, audits, locals, faults>>

\* Mutant: that no row was changed is not noticed.
DeactivateIgnoresChanged(r) ==
  /\ pc[r] = "deactivate"
  /\ LET row == nodes[call[r].node] IN
     nodes' = [nodes EXCEPT ![call[r].node] =
       [code |-> row.code, design |-> row.design, status |-> "inactive"]]
  /\ Goto(r, "audit")
  /\ UNCHANGED <<scenarios, audits, locals, faults>>

Deactivate(r) ==
  /\ pc[r] = "deactivate"
  /\ LET row == nodes[call[r].node] IN
     IF row.status = "active"
     THEN /\ nodes' = [nodes EXCEPT ![call[r].node] =
               [code |-> row.code, design |-> row.design, status |-> "inactive"]]
          /\ Goto(r, "audit")
     ELSE Reply(r, "conflict") /\ UNCHANGED nodes
  /\ UNCHANGED <<scenarios, audits, locals, faults>>

InsertScenario(r) ==
  /\ pc[r] = "insertScenario"
  /\ scenarios' = [scenarios EXCEPT ![r] = call[r].node]
  /\ Goto(r, "audit")
  /\ UNCHANGED <<nodes, audits, locals, faults>>

(* The end of every handler.                                               *)

\* The entry of a scenario has a snapshot of the scenario, which is left out.
AuditEntry(r) ==
  [request |-> r, action |-> call[r].kind,
   before |-> IF call[r].kind = "addScenario" THEN None ELSE seen[r], after |-> copy[r]]

RecordAudit(r) ==
  /\ pc[r] = "audit"
  /\ audits' = audits \cup {AuditEntry(r)}
  /\ IF call[r].kind \in {"update", "deactivate"} THEN Goto(r, "reload") ELSE Reply(r, "ok")
  /\ UNCHANGED <<nodes, scenarios, locals, faults>>

\* The summary of Update, and Get after Deactivate.
Reload(r) ==
  /\ pc[r] = "reload"
  /\ Reply(r, "ok")
  /\ UNCHANGED <<nodes, scenarios, audits, locals, faults>>

StatementFails(r) ==
  /\ pc[r] \in Statements
  /\ faults < MaxFaults
  /\ faults' = faults + 1
  /\ Reply(r, "internal")
  /\ UNCHANGED <<nodes, scenarios, audits, locals>>

Crash ==
  /\ \E r \in Requests : pc[r] \in Statements
  /\ faults < MaxFaults
  /\ faults' = faults + 1
  /\ pc' = [r \in Requests |-> IF pc[r] \in Statements THEN "done" ELSE pc[r]]
  /\ answer' = [r \in Requests |-> IF pc[r] \in Statements THEN "lost" ELSE answer[r]]
  /\ UNCHANGED <<nodes, scenarios, audits, locals>>

\* Every request was handled: the server waits.
Quiescent ==
  /\ \A r \in Requests : pc[r] = "done"
  /\ UNCHANGED vars

Step(r) ==
  \/ Receive(r) \/ FindCode(r) \/ Insert(r) \/ Read(r) \/ Write(r) \/ Deactivate(r)
  \/ InsertScenario(r) \/ RecordAudit(r) \/ Reload(r) \/ StatementFails(r)

Next == (\E r \in Requests : Step(r)) \/ Crash \/ Quiescent

Spec == Init /\ [][Next]_vars

-----------------------------------------------------------------------------
(* Safety.                                                                 *)

\* A node code names one node, whoever registers it at the same time (Create's check
\* before its insert, and the unique index); and a registration is refused only when the
\* code names another node.
CodeNamesOneNode ==
  /\ \A m, n \in Nodes :
       m # n /\ nodes[m] # None /\ nodes[n] # None => nodes[m].code # nodes[n].code
  /\ \A r \in Requests :
       call[r] # None /\ call[r].kind = "create" /\ answer[r] = "conflict" =>
         \E n \in Nodes \ {r} : nodes[n] # None /\ nodes[n].code = call[r].code

Updates(n) == {r \in Requests : call[r] # None /\ call[r].kind = "update" /\ call[r].node = n}

Deactivations(n) ==
  {r \in Requests : call[r] # None /\ call[r].kind = "deactivate" /\ call[r].node = n}

\* Update u of node n wrote the status active, or failed when it was to.
Activation(u, n) ==
  /\ u \in Updates(n) /\ pc[u] \in {"audit", "reload", "done"}
  /\ copy[u] # None /\ copy[u].status = "active"

\* An activation of n that was not answered before q was sent, and was sent before r was
\* answered.
ActivatedBetween(q, r, n) ==
  \E u \in Requests : Activation(u, n) /\ u \notin precede[q] /\ r \notin precede[u]

\* Two deactivations of a node, one of which is answered and one recorded as done, have an
\* activation between them: of those that race for an active node one succeeds
\* (Deactivate's two checks of the status, against each other and against Update).
DeactivatedOnce ==
  \A n \in Nodes : \A q, r \in Deactivations(n) :
    q # r /\ answer[q] = "ok" /\ (\E a \in audits : a.request = r) =>
      ActivatedBetween(q, r, n) \/ ActivatedBetween(r, q, n)

\* A scenario that is asked for after a deactivation of its node was answered is added only
\* if an update that leaves the node active came between (the check in Create of the
\* scenario service).
DeactivationHolds ==
  \A r \in Requests : scenarios[r] # None =>
    \A q \in precede[r] : q \in Deactivations(scenarios[r]) /\ answer[q] = "ok" =>
      ActivatedBetween(q, r, scenarios[r])

\* Every statement of every handler is a step the life of the nodes allows.
Lifecycle == INSTANCE NodeLifecycle
  WITH Scenarios <- Requests, Persisted <- {[n \in Nodes |-> IF n = Seed THEN SeedRow ELSE None]}

ImplementsNodeLifecycle == Lifecycle!Spec

(* What documents of the repository say and the code does not do.          *)

\* Requirements: transitions of states are conditional updates.  So an inactive node
\* becomes active only by a request for that status.
ReactivatedOnRequest ==
  [][\A n \in Nodes :
       nodes[n] # None /\ nodes[n].status = "inactive" /\ nodes'[n].status = "active" =>
         \E r \in Requests :
           pc[r] = "write" /\ call[r].node = n /\ call[r].status = "active"]_vars
=============================================================================
