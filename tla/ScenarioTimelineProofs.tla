------------------------ MODULE ScenarioTimelineProofs ------------------------
(***************************************************************************)
(* What holds of the answers of ScenarioTimeline for any number of         *)
(* requests, pages of any size and any number of entries on other          *)
(* scenarios.                                                              *)
(***************************************************************************)
EXTENDS ScenarioTimeline, ScenarioReviewProofs, FiniteSetTheorems

-----------------------------------------------------------------------------
(* The timeline and the scenario.                                          *)

\* Every step of the handlers with their timelines is a step of ScenarioReview or leaves
\* its variables alone.
LEMMA TimelineStepIsStep ==
  ASSUME [TimelineNext]_timelineVars
  PROVE  [Next]_vars
<1>1. CASE UNCHANGED timelineVars
  BY <1>1 DEF timelineVars
<1>2. ASSUME NEW r \in Requests,
             SendAndNote(r) \/ ServeUntilAudit(r) \/ InsertEntry(r)
               \/ AnswerWithTimeline(r) \/ Fails(r)
      PROVE  [Next]_vars
  BY <1>2 DEF SendAndNote, ServeUntilAudit, InsertEntry, AnswerWithTimeline, Fails, Next, Step
<1>3. ASSUME NEW r \in Requests, ReadClock(r) \/ ReadRow(r) PROVE [Next]_vars
  BY <1>3 DEF ReadClock, ReadRow
<1>4. CASE InsertForeign
  BY <1>4 DEF InsertForeign
<1>5. CASE Crash \/ Quiescent
  BY <1>5 DEF Next
<1> QED
  BY <1>1, <1>2, <1>3, <1>4, <1>5 DEF TimelineNext

\* ScenarioTimeline refines ScenarioReview: whatever is proved of the latter holds when
\* audit entries are inserted late and answers are read in two statements.
THEOREM TimelineIsReview == TimelineSpec => Spec
<1>1. TimelineInit => Init
  BY DEF TimelineInit
<1>2. [TimelineNext]_timelineVars => [Next]_vars
  BY TimelineStepIsStep
<1> QED
  BY <1>1, <1>2, PTL DEF TimelineSpec, Spec

LEMMA TimelineReviewInv == TimelineSpec => []Inv
BY TimelineIsReview, Inductive, PTL

-----------------------------------------------------------------------------
(* The order of a page.                                                    *)

\* Entries are ordered by time and id, without ties.
LEMMA NewerIsOrder ==
  ASSUME log \in Seq(LogRows)
  PROVE  /\ \A i \in DOMAIN log : ~Newer(i, i)
         /\ \A i, j \in DOMAIN log : i = j \/ Newer(i, j) \/ Newer(j, i)
         /\ \A i, j, k \in DOMAIN log : Newer(i, j) /\ Newer(j, k) => Newer(i, k)
<1>1. \A i \in DOMAIN log : i \in Nat /\ log[i] \in LogRows
  OBVIOUS
<1>2. \A i \in DOMAIN log : log[i].at \in Nat
  BY <1>1 DEF LogRows
<1>3. \A i \in DOMAIN log : ~Newer(i, i)
  BY <1>1, <1>2 DEF Newer
<1>4. \A i, j \in DOMAIN log : i = j \/ Newer(i, j) \/ Newer(j, i)
  BY <1>1, <1>2 DEF Newer
<1>5. ASSUME NEW i \in DOMAIN log, NEW j \in DOMAIN log, NEW k \in DOMAIN log,
             Newer(i, j), Newer(j, k)
      PROVE  Newer(i, k)
  <2>1. /\ i \in Nat /\ j \in Nat /\ k \in Nat
        /\ log[i].at \in Nat /\ log[j].at \in Nat /\ log[k].at \in Nat
    BY <1>1, <1>2
  <2> QED BY <1>5, <2>1 DEF Newer
<1> QED BY <1>3, <1>4, <1>5

\* The entries of S that are older than entry i.
OlderIn(S, i) == {j \in S : Newer(i, j)}

\* How many entries of a set are older tells its entries apart, and takes each value from
\* none to all but one.
LEMMA Ranks ==
  ASSUME log \in Seq(LogRows), NEW S \in SUBSET (DOMAIN log)
  PROVE  /\ IsFiniteSet(S) /\ Cardinality(S) \in Nat
         /\ \A i \in S : Cardinality(OlderIn(S, i)) \in 0..(Cardinality(S) - 1)
         /\ \A i, j \in S : Newer(j, i) =>
              Cardinality(OlderIn(S, i)) < Cardinality(OlderIn(S, j))
         /\ \A n \in 0..(Cardinality(S) - 1) : \E i \in S : Cardinality(OlderIn(S, i)) = n
<1> DEFINE f == [i \in S |-> Cardinality(OlderIn(S, i))]
           n == Cardinality(S)
<1>1. IsFiniteSet(S) /\ n \in Nat
  <2>1. DOMAIN log = 1..Len(log) /\ Len(log) \in Nat
    OBVIOUS
  <2>2. IsFiniteSet(DOMAIN log)
    BY <2>1, FS_Interval
  <2> QED BY <2>2, FS_Subset, FS_CardinalityType
<1>2. ASSUME NEW i \in S
      PROVE  IsFiniteSet(OlderIn(S, i)) /\ Cardinality(OlderIn(S, i)) \in 0..(n - 1)
  <2>1. OlderIn(S, i) \in SUBSET S /\ i \notin OlderIn(S, i)
    BY NewerIsOrder DEF OlderIn
  <2>2. OlderIn(S, i) # S
    BY <2>1
  <2>3. /\ IsFiniteSet(OlderIn(S, i)) /\ Cardinality(OlderIn(S, i)) <= n
        /\ Cardinality(OlderIn(S, i)) # n
    BY <1>1, <2>1, <2>2, FS_Subset
  <2>4. Cardinality(OlderIn(S, i)) \in Nat
    BY <2>3, FS_CardinalityType
  <2> HIDE DEF n
  <2> QED BY <1>1, <2>3, <2>4
<1>3. ASSUME NEW i \in S, NEW j \in S, Newer(j, i)
      PROVE  Cardinality(OlderIn(S, i)) < Cardinality(OlderIn(S, j))
  <2>1. OlderIn(S, i) \in SUBSET OlderIn(S, j) /\ i \in OlderIn(S, j) /\ i \notin OlderIn(S, i)
    BY <1>3, NewerIsOrder DEF OlderIn
  <2>2. OlderIn(S, i) # OlderIn(S, j)
    BY <2>1
  <2>3. /\ Cardinality(OlderIn(S, i)) <= Cardinality(OlderIn(S, j))
        /\ Cardinality(OlderIn(S, i)) # Cardinality(OlderIn(S, j))
    BY <1>2, <2>1, <2>2, FS_Subset
  <2> QED BY <2>3, <1>2
<1>4. ASSUME NEW m \in 0..(n - 1) PROVE \E i \in S : Cardinality(OlderIn(S, i)) = m
  <2>1. \A i, j \in S : f[i] = f[j] => i = j
    <3> SUFFICES ASSUME NEW i \in S, NEW j \in S, i # j PROVE f[i] # f[j]
      OBVIOUS
    <3>1. Newer(i, j) \/ Newer(j, i)
      BY NewerIsOrder
    <3>2. f[i] < f[j] \/ f[j] < f[i]
      BY <1>3, <3>1
    <3>3. f[i] \in Int /\ f[j] \in Int
      BY <1>2
    <3> HIDE DEF f
    <3> QED BY <3>2, <3>3
  <2>2. f \in Injection(S, 0..(n - 1))
    BY <1>2, <2>1 DEF Injection, IsInjective
  <2>3. IsFiniteSet(0..(n - 1)) /\ Cardinality(0..(n - 1)) = n
    <3> HIDE DEF n
    <3>1. 0 \in Int /\ n - 1 \in Int
      BY <1>1
    <3>2. /\ IsFiniteSet(0..(n - 1))
          /\ Cardinality(0..(n - 1)) = IF 0 > n - 1 THEN 0 ELSE n - 1 - 0 + 1
      BY <3>1, FS_Interval
    <3> QED BY <1>1, <3>2
  <2>4. f \in Surjection(S, 0..(n - 1))
    BY <2>2, <2>3, FS_Injection
  <2> QED BY <2>4 DEF Surjection
<1> QED BY <1>1, <1>2, <1>3, <1>4


\* A timeline lists the events of the page, each at one place, an event before those that
\* are newer.
LEMMA TimelineListsEvents ==
  ASSUME log \in Seq(LogRows)
  PROVE  \E e \in [1..Cardinality(Events) -> Events] :
           /\ Cardinality(Events) \in Nat
           /\ Timeline = [k \in 1..Cardinality(Events) |-> log[e[k]].writer]
           /\ \A a, b \in 1..Cardinality(Events) : a < b => Newer(e[b], e[a])
           /\ \A i \in Events : \E k \in 1..Cardinality(Events) : e[k] = i
<1> DEFINE n == Cardinality(Events)
           e == [k \in 1..n |-> CHOOSE i \in Events : Cardinality(OlderIn(Events, i)) = k - 1]
<1>1. Events \in SUBSET (DOMAIN log)
  BY DEF Events, Page
<1>2. /\ n \in Nat
      /\ \A i \in Events : Cardinality(OlderIn(Events, i)) \in 0..(n - 1)
      /\ \A i, j \in Events : Newer(j, i) =>
           Cardinality(OlderIn(Events, i)) < Cardinality(OlderIn(Events, j))
      /\ \A m \in 0..(n - 1) : \E i \in Events : Cardinality(OlderIn(Events, i)) = m
  BY <1>1, Ranks
<1> HIDE DEF n
<1>3. \A k \in 1..n : k - 1 \in 0..(n - 1)
  BY <1>2
<1>4. ASSUME NEW k \in 1..n
      PROVE  e[k] \in Events /\ Cardinality(OlderIn(Events, e[k])) = k - 1
  BY <1>2, <1>3
<1>5. \A i, j \in Events : i = j \/ Newer(i, j) \/ Newer(j, i)
  BY <1>1, NewerIsOrder
<1>6. e \in [1..n -> Events]
  BY <1>4
<1> HIDE DEF e
<1>7. ASSUME NEW a \in 1..n, NEW b \in 1..n, a < b PROVE Newer(e[b], e[a])
  <2>1. e[a] # e[b] /\ ~Newer(e[a], e[b])
    BY <1>2, <1>4, <1>7
  <2> QED BY <1>4, <1>5, <2>1
<1>8. ASSUME NEW i \in Events PROVE \E k \in 1..n : e[k] = i
  <2> DEFINE m == Cardinality(OlderIn(Events, i))
  <2>1. m \in 0..(n - 1)
    BY <1>2
  <2> HIDE DEF m
  <2>2. m + 1 \in 1..n /\ (m + 1) - 1 = m
    BY <1>2, <2>1
  <2>3. e[m + 1] \in Events /\ Cardinality(OlderIn(Events, e[m + 1])) = m
    BY <1>4, <2>2
  <2>4. ~Newer(i, e[m + 1]) /\ ~Newer(e[m + 1], i)
    BY <1>2, <2>1, <2>3 DEF m
  <2> QED BY <1>5, <2>2, <2>3, <2>4
<1>9. Timeline = [k \in 1..n |-> log[e[k]].writer]
  BY DEF Timeline, e, n, OlderIn
<1> QED BY <1>2, <1>6, <1>7, <1>8, <1>9 DEF n

\* A timeline is a sequence of requests whose entries are in the log.
LEMMA TimelineTyped ==
  ASSUME log \in Seq(LogRows)
  PROVE  Timeline \in Seq(Requests)
<1>1. PICK e \in [1..Cardinality(Events) -> Events] :
        /\ Cardinality(Events) \in Nat
        /\ Timeline = [k \in 1..Cardinality(Events) |-> log[e[k]].writer]
  BY TimelineListsEvents
<1>2. \A i \in Events : log[i].writer \in Requests
  <2>1. \A i \in DOMAIN log : log[i] \in LogRows
    OBVIOUS
  <2> QED BY <2>1 DEF Events, Page, IsEvent, LogRows
<1>3. Timeline \in [1..Cardinality(Events) -> Requests]
  BY <1>1, <1>2
<1> QED BY <1>1, <1>3

-----------------------------------------------------------------------------
(* The invariant.                                                          *)

\* What is known of the answer and the entry of a request.
HandlerAt(r) ==
  /\ pc[r] \in {"audit", "get"} \/ answer[r] = "ok" => scenario.version > view[r].version
  /\ \A q \in precede[r] : answer[q] = "ok"
  /\ stamp[r] # None => pc[r] \in {"audit", "get", "done"} /\ stamp[r] <= clock
  /\ pc[r] = "get" \/ answer[r] = "ok" => stamp[r] # None
  /\ \A q \in precede[r] : stamp[r] # None => stamp[q] < stamp[r]
  /\ answer[r] = "ok" => shown[r] # None
  /\ shown[r] # None =>
       /\ pc[r] \in {"get", "done"}
       /\ \A q \in precede[r] \cup {r} : shown[r].version > view[q].version

Handlers == \A r \in Requests : HandlerAt(r)

\* An entry carries the time its request read, and there is one for each request.
Entries ==
  /\ \A i \in DOMAIN log : log[i].writer # None =>
       /\ pc[log[i].writer] \in {"get", "done"}
       /\ stamp[log[i].writer] # None /\ log[i].at = stamp[log[i].writer]
  /\ \A i, j \in DOMAIN log : log[i].writer # None /\ log[i].writer = log[j].writer => i = j

\* A timeline was answered, and lists requests that have recorded their entries.
Answers ==
  \A r \in Requests : timeline[r] # None =>
    /\ pc[r] = "done"
    /\ \A k \in DOMAIN timeline[r] : pc[timeline[r][k]] \in {"get", "done"}

Records == Entries /\ Answers /\ TimelineFollowsHistory /\ TimelineIsComplete

TimelineInv == TimelineTypeOK /\ Handlers /\ Records

LEMMA TimelineInitInv == TimelineInit => TimelineInv
<1> SUFFICES ASSUME TimelineInit PROVE TimelineInv
  OBVIOUS
<1>1. TimelineTypeOK
  BY DEF TimelineInit, TimelineTypeOK
<1>2. Handlers
  BY DEF TimelineInit, Init, Handlers, HandlerAt
<1>3. Records
  BY DEF TimelineInit, Records, Entries, Answers, TimelineFollowsHistory, TimelineIsComplete
<1> QED BY <1>1, <1>2, <1>3 DEF TimelineInv

-----------------------------------------------------------------------------
(* The handlers.                                                           *)

\* The version of the scenario is a number that never decreases.
LEMMA VersionGrows ==
  ASSUME Inv, Inv', [Next]_vars
  PROVE  /\ scenario.version \in Nat /\ scenario'.version \in Nat
         /\ scenario.version <= scenario'.version
<1>1. scenario.version \in Nat /\ scenario'.version \in Nat
  BY RowFields DEF Inv, TypeOK
<1>2. ASSUME NEW r \in Requests, Write(r) PROVE scenario.version <= scenario'.version
  <2>1. CASE Matches(r)
    BY <1>1, <1>2, <2>1, WriteFacts
  <2>2. CASE ~Matches(r)
    BY <1>1, <1>2, <2>2 DEF Write
  <2> QED BY <2>1, <2>2
<1>3. UNCHANGED scenario => scenario.version <= scenario'.version
  BY <1>1
<1>4. [Next]_vars => UNCHANGED scenario \/ \E r \in Requests : Write(r)
  BY DEF Next, Step, vars, Open, Send, Read, RecordAudit, Get, StatementFails, Crash, Quiescent
<1> QED BY <1>1, <1>2, <1>3, <1>4

\* The versions that were opened are numbers.
LEMMA ViewVersions ==
  ASSUME Inv, NEW r \in Requests, pc[r] # "idle"
  PROVE  view[r] \in Rows /\ view[r].version \in Nat
BY RowFields DEF Inv, Ready, ReadyAt

\* The requests that were answered before another one was sent are done.
LEMMA PrecedeDone ==
  ASSUME Inv, TimelineTypeOK, NEW r \in Requests, HandlerAt(r), NEW q \in precede[r]
  PROVE  q \in Requests /\ pc[q] = "done" /\ answer[q] = "ok"
<1>1. q \in Requests
  BY DEF TimelineTypeOK
<1>2. answer[q] = "ok"
  BY DEF HandlerAt
<1> QED BY <1>1, <1>2 DEF Inv, Ready, ReadyAt

\* The variables of a request and of its answer.
Same(q) ==
  /\ pc'[q] = pc[q] /\ answer'[q] = answer[q] /\ view'[q] = view[q]
  /\ stamp'[q] = stamp[q] /\ shown'[q] = shown[q] /\ precede'[q] = precede[q]

\* What is known of a request stays so while others take steps.
LEMMA SameHandler ==
  ASSUME Inv, Inv', [Next]_vars, TimelineTypeOK, Handlers, clock' \in Nat, clock <= clock',
         \A q \in Requests : pc[q] = "done" => Same(q),
         NEW r \in Requests, Same(r)
  PROVE  HandlerAt(r)'
<1>1. HandlerAt(r)
  BY DEF Handlers
<1>2. \A q \in precede[r] : Same(q)
  BY <1>1, PrecedeDone
<1>3. clock \in Nat /\ stamp[r] \in Nat \cup {None}
  BY DEF TimelineTypeOK
<1>4. (pc[r] \in {"audit", "get"} \/ answer[r] = "ok" => scenario.version > view[r].version)'
  <2> SUFFICES ASSUME pc[r] \in {"audit", "get"} \/ answer[r] = "ok"
               PROVE  scenario'.version > view[r].version
    BY DEF Same
  <2>1. scenario.version > view[r].version /\ pc[r] # "idle"
    BY <1>1 DEF HandlerAt, Inv, Ready, ReadyAt
  <2> QED BY <2>1, VersionGrows, ViewVersions
<1>5. (stamp[r] # None => pc[r] \in {"audit", "get", "done"} /\ stamp[r] <= clock)'
  BY <1>1, <1>3 DEF HandlerAt, Same
<1> QED BY <1>1, <1>2, <1>4, <1>5 DEF HandlerAt, Same

\* A request that ends without success leaves no more to know.
LEMMA EndedHandler ==
  ASSUME Inv, Inv', [Next]_vars, TimelineTypeOK, Handlers, UNCHANGED clock,
         \A q \in Requests : pc[q] = "done" => Same(q),
         NEW r \in Requests, pc'[r] = "done", answer'[r] # "ok", view'[r] = view[r],
         stamp'[r] = stamp[r], shown'[r] = shown[r], precede'[r] = precede[r]
  PROVE  HandlerAt(r)'
<1>1. HandlerAt(r)
  BY DEF Handlers
<1>2. \A q \in precede[r] : Same(q)
  BY <1>1, PrecedeDone
<1> QED BY <1>1, <1>2 DEF HandlerAt, Same

\* A step of a request changes its own program counter, answer and row.
LEMMA OwnStep ==
  ASSUME Inv, TimelineTypeOK, NEW r \in Requests,
         \/ SendAndNote(r) \/ ServeUntilAudit(r) \/ ReadClock(r) \/ InsertEntry(r)
         \/ ReadRow(r) \/ AnswerWithTimeline(r) \/ Fails(r)
  PROVE  /\ pc[r] # "done" /\ answer[r] = "pending"
         /\ \A q \in Requests \ {r} : Same(q) /\ timeline'[q] = timeline[q]
         /\ \A q \in Requests : pc[q] = "done" => Same(q)
<1>1. TypeOK /\ (pc[r] # "done" => answer[r] = "pending")
  BY DEF Inv, Ready, ReadyAt
<1>2. CASE SendAndNote(r)
  BY <1>1, <1>2 DEF SendAndNote, Send, Goto, Reply, TypeOK, TimelineTypeOK, Same
<1>3. CASE ServeUntilAudit(r)
  BY <1>1, <1>3 DEF ServeUntilAudit, Open, Read, Write, Goto, Reply, TypeOK, Same
<1>4. CASE ReadClock(r)
  BY <1>1, <1>4 DEF ReadClock, vars, TimelineTypeOK, Same
<1>5. CASE InsertEntry(r)
  BY <1>1, <1>5 DEF InsertEntry, RecordAudit, Goto, TypeOK, Same
<1>6. CASE ReadRow(r)
  BY <1>1, <1>6 DEF ReadRow, vars, TimelineTypeOK, Same
<1>7. CASE AnswerWithTimeline(r)
  BY <1>1, <1>7 DEF AnswerWithTimeline, Get, Reply, TypeOK, TimelineTypeOK, Same
<1>8. CASE Fails(r)
  BY <1>1, <1>8 DEF Fails, StatementFails, Reply, TypeOK, Statements, Same
<1> QED BY <1>2, <1>3, <1>4, <1>5, <1>6, <1>7, <1>8

\* The part of a step that is the same for all requests.
LEMMA HandlersStep ==
  ASSUME Inv, Inv', [Next]_vars, TimelineInv, clock' \in Nat, clock <= clock',
         NEW r \in Requests,
         \/ SendAndNote(r) \/ ServeUntilAudit(r) \/ ReadClock(r) \/ InsertEntry(r)
         \/ ReadRow(r) \/ AnswerWithTimeline(r) \/ Fails(r),
         HandlerAt(r)'
  PROVE  Handlers'
<1>1. TimelineTypeOK /\ Handlers
  BY DEF TimelineInv
<1>2. \A q \in Requests \ {r} : HandlerAt(q)'
  BY <1>1, OwnStep, SameHandler
<1> QED BY <1>2 DEF Handlers

LEMMA SendHandlers ==
  ASSUME Inv, Inv', [Next]_vars, TimelineInv, NEW r \in Requests, SendAndNote(r)
  PROVE  Handlers'
<1>1. TimelineTypeOK /\ HandlerAt(r) /\ TypeOK /\ answer[r] = "pending"
  BY OwnStep DEF TimelineInv, Handlers, Inv
<1>2. /\ pc[r] = "opened"
      /\ pc'[r] \in {"read", "done"} /\ answer'[r] \in {"pending", "forbidden"}
      /\ precede'[r] = {q \in Requests : answer[q] = "ok"}
      /\ UNCHANGED <<scenario, stamp, shown, clock>>
  BY <1>1 DEF SendAndNote, Send, Goto, Reply, TypeOK, TimelineTypeOK
<1>3. stamp[r] = None /\ shown[r] = None
  BY <1>1, <1>2 DEF HandlerAt
<1>4. \A q \in precede'[r] : answer'[q] = "ok"
  BY <1>1, <1>2, OwnStep DEF Same
<1>5. HandlerAt(r)'
  BY <1>2, <1>3, <1>4 DEF HandlerAt
<1> QED BY <1>1, <1>2, <1>5, HandlersStep DEF TimelineTypeOK

LEMMA ServeHandlers ==
  ASSUME Inv, Inv', [Next]_vars, TimelineInv, NEW r \in Requests, ServeUntilAudit(r)
  PROVE  Handlers'
<1>1. TimelineTypeOK /\ HandlerAt(r) /\ TypeOK /\ answer[r] = "pending"
  BY OwnStep DEF TimelineInv, Handlers, Inv
<1>2. pc[r] \in {"idle", "read", "write"} /\ UNCHANGED <<stamp, shown, precede, clock>>
  BY DEF ServeUntilAudit, Open, Read, Write
<1>3. stamp[r] = None /\ shown[r] = None
  BY <1>1, <1>2 DEF HandlerAt
<1>4. /\ pc'[r] \in {"opened", "write", "audit", "done"} /\ answer'[r] # "ok"
      /\ pc'[r] = "audit" => Write(r) /\ Matches(r)
  <2>1. CASE Open(r)
    BY <1>1, <2>1 DEF Open, Goto, TypeOK
  <2>2. CASE Read(r)
    <3>1. Verdict(call[r], scenario) # "ok" \/ Goto(r, "write") \/ Reply(r, "notFound")
      BY <2>2 DEF Read
    <3> QED BY <1>1, <2>2, <3>1 DEF Read, Goto, Reply, TypeOK
  <2>3. CASE Write(r)
    BY <1>1, <2>3 DEF Write, Goto, Reply, TypeOK
  <2> QED BY <2>1, <2>2, <2>3 DEF ServeUntilAudit
<1>5. pc'[r] = "audit" => scenario'.version > view'[r].version
  <2> SUFFICES ASSUME pc'[r] = "audit" PROVE scenario'.version > view'[r].version
    OBVIOUS
  <2>1. view[r] = scenario /\ view' = view /\ scenario'.version = scenario.version + 1
    BY <1>4, WriteFacts
  <2> QED BY <2>1, VersionGrows
<1>6. \A q \in precede[r] : answer'[q] = "ok"
  BY <1>1, PrecedeDone, OwnStep DEF Same
<1>7. HandlerAt(r)'
  BY <1>2, <1>3, <1>4, <1>5, <1>6 DEF HandlerAt
<1> QED BY <1>1, <1>2, <1>7, HandlersStep DEF TimelineTypeOK

LEMMA ReadClockHandlers ==
  ASSUME Inv, Inv', [Next]_vars, TimelineInv, NEW r \in Requests, ReadClock(r)
  PROVE  Handlers'
<1>1. TimelineTypeOK /\ HandlerAt(r) /\ answer[r] = "pending"
  BY OwnStep DEF TimelineInv, Handlers
<1>2. /\ pc[r] = "audit" /\ clock' = clock + 1 /\ clock \in Nat
      /\ stamp' = [stamp EXCEPT ![r] = clock + 1] /\ stamp'[r] = clock + 1
      /\ UNCHANGED <<pc, answer, view, scenario, shown, precede>>
  BY <1>1 DEF ReadClock, vars, TimelineTypeOK
<1>3. \A q \in precede[r] : stamp'[q] < stamp'[r]
  <2> SUFFICES ASSUME NEW q \in precede[r] PROVE stamp'[q] < stamp'[r]
    OBVIOUS
  <2>1. q \in Requests /\ answer[q] = "ok" /\ q # r
    BY <1>1, PrecedeDone
  <2>2. HandlerAt(q) /\ stamp[q] \in Nat \cup {None}
    BY <1>1, <2>1 DEF TimelineInv, Handlers, TimelineTypeOK
  <2>3. stamp[q] \in Nat /\ stamp[q] <= clock
    BY <2>1, <2>2 DEF HandlerAt
  <2>4. stamp'[q] = stamp[q]
    BY <1>2, <2>1
  <2> QED BY <1>2, <2>3, <2>4
<1>4. HandlerAt(r)'
  BY <1>1, <1>2, <1>3 DEF HandlerAt
<1> QED BY <1>2, <1>4, HandlersStep

LEMMA InsertHandlers ==
  ASSUME Inv, Inv', [Next]_vars, TimelineInv, NEW r \in Requests, InsertEntry(r)
  PROVE  Handlers'
<1>1. TimelineTypeOK /\ HandlerAt(r) /\ TypeOK /\ answer[r] = "pending"
  BY OwnStep DEF TimelineInv, Handlers, Inv
<1>2. /\ pc[r] = "audit" /\ pc'[r] = "get" /\ stamp[r] # None
      /\ UNCHANGED <<answer, view, scenario, shown, precede, stamp, clock>>
  BY <1>1 DEF InsertEntry, RecordAudit, Goto, TypeOK
<1>3. HandlerAt(r)'
  BY <1>1, <1>2 DEF HandlerAt
<1> QED BY <1>1, <1>2, <1>3, HandlersStep DEF TimelineTypeOK

LEMMA ReadRowHandlers ==
  ASSUME Inv, Inv', [Next]_vars, TimelineInv, NEW r \in Requests, ReadRow(r)
  PROVE  Handlers'
<1>1. TimelineTypeOK /\ HandlerAt(r) /\ answer[r] = "pending"
  BY OwnStep DEF TimelineInv, Handlers
<1>2. /\ pc[r] = "get" /\ shown'[r] = scenario
      /\ UNCHANGED <<pc, answer, view, scenario, precede, stamp, clock>>
  BY <1>1 DEF ReadRow, CurrentRow, vars, TimelineTypeOK
<1>3. ASSUME NEW q \in precede[r] \cup {r} PROVE scenario.version > view[q].version
  <2>1. q \in Requests /\ (answer[q] = "ok" \/ pc[q] = "get")
    BY <1>1, <1>2, PrecedeDone
  <2> QED BY <2>1 DEF TimelineInv, Handlers, HandlerAt
<1>4. HandlerAt(r)'
  BY <1>1, <1>2, <1>3 DEF HandlerAt
<1> QED BY <1>1, <1>2, <1>4, HandlersStep DEF TimelineTypeOK

LEMMA AnswerHandlers ==
  ASSUME Inv, Inv', [Next]_vars, TimelineInv, NEW r \in Requests, AnswerWithTimeline(r)
  PROVE  Handlers'
<1>1. TimelineTypeOK /\ HandlerAt(r) /\ TypeOK
  BY DEF TimelineInv, Handlers, Inv
<1>2. /\ pc[r] = "get" /\ pc'[r] = "done" /\ shown[r] # None
      /\ UNCHANGED <<view, scenario, shown, precede, stamp, clock>>
  BY <1>1 DEF AnswerWithTimeline, Get, Reply, TypeOK
<1>3. \A q \in precede[r] : answer'[q] = "ok"
  BY <1>1, PrecedeDone, OwnStep DEF Same
<1>4. HandlerAt(r)'
  BY <1>1, <1>2, <1>3 DEF HandlerAt
<1> QED BY <1>1, <1>2, <1>4, HandlersStep DEF TimelineTypeOK

LEMMA FailsHandlers ==
  ASSUME Inv, Inv', [Next]_vars, TimelineInv, NEW r \in Requests, Fails(r)
  PROVE  Handlers'
<1>1. TimelineTypeOK /\ Handlers /\ TypeOK
  BY DEF TimelineInv, Inv
<1>2. /\ pc'[r] = "done" /\ answer'[r] = "internal"
      /\ UNCHANGED <<view, shown, precede, stamp, clock>>
  BY <1>1 DEF Fails, StatementFails, Reply, TypeOK
<1>3. HandlerAt(r)'
  BY <1>1, <1>2, OwnStep, EndedHandler
<1> QED BY <1>1, <1>2, <1>3, HandlersStep DEF TimelineTypeOK

LEMMA CrashHandlers ==
  ASSUME Inv, Inv', [Next]_vars, TimelineInv, Crash,
         UNCHANGED <<log, clock, stamp, shown, timeline, precede>>
  PROVE  Handlers'
<1>1. TimelineTypeOK /\ Handlers /\ TypeOK
  BY DEF TimelineInv, Inv
<1>2. \A q \in Requests :
        /\ pc[q] \notin Statements => Same(q)
        /\ pc[q] \in Statements => pc'[q] = "done" /\ answer'[q] = "lost"
        /\ view'[q] = view[q]
  BY <1>1 DEF Crash, TypeOK, Same
<1>3. \A q \in Requests : pc[q] = "done" => Same(q)
  BY <1>2 DEF Statements
<1>4. ASSUME NEW q \in Requests PROVE HandlerAt(q)'
  <2>1. CASE pc[q] \in Statements
    BY <1>1, <1>2, <1>3, <2>1, EndedHandler
  <2>2. CASE pc[q] \notin Statements
    BY <1>1, <1>2, <1>3, <2>2, SameHandler DEF TimelineTypeOK
  <2> QED BY <2>1, <2>2
<1> QED BY <1>4 DEF Handlers

LEMMA QuietHandlers ==
  ASSUME Inv, Inv', [Next]_vars, TimelineInv, clock' \in Nat, clock <= clock',
         UNCHANGED <<vars, stamp, shown, precede>>
  PROVE  Handlers'
<1>1. TimelineTypeOK /\ Handlers
  BY DEF TimelineInv
<1>2. \A q \in Requests : Same(q)
  BY DEF vars, Same
<1> QED BY <1>1, <1>2, SameHandler DEF Handlers

-----------------------------------------------------------------------------
(* The log and the timelines.                                              *)

\* The entry of a step is a row of the log.
LEMMA TimelineTypeStep ==
  ASSUME Inv, TimelineInv, [TimelineNext]_timelineVars
  PROVE  TimelineTypeOK'
<1>1. /\ log \in Seq(LogRows) /\ clock \in Nat
      /\ stamp \in [Requests -> Nat \cup {None}]
      /\ shown \in [Requests -> Rows \cup {None}]
      /\ timeline \in [Requests -> Seq(Requests) \cup {None}]
      /\ precede \in [Requests -> SUBSET Requests] /\ scenario \in Rows
  BY DEF TimelineInv, TimelineTypeOK, Inv, TypeOK
<1>2. CASE UNCHANGED <<log, clock, stamp, shown, timeline, precede>>
  BY <1>1, <1>2 DEF TimelineTypeOK
<1>3. ASSUME NEW r \in Requests, SendAndNote(r) PROVE TimelineTypeOK'
  BY <1>1, <1>3 DEF SendAndNote, TimelineTypeOK
<1>4. ASSUME NEW r \in Requests, ReadClock(r) PROVE TimelineTypeOK'
  BY <1>1, <1>4 DEF ReadClock, TimelineTypeOK
<1>5. ASSUME NEW r \in Requests, InsertEntry(r) PROVE TimelineTypeOK'
  <2>1. [writer |-> r, at |-> stamp[r]] \in LogRows
    BY <1>1, <1>5 DEF InsertEntry, LogRows
  <2>2. log' \in Seq(LogRows)
    BY <1>1, <1>5, <2>1 DEF InsertEntry
  <2> QED BY <1>1, <1>5, <2>2 DEF InsertEntry, TimelineTypeOK
<1>6. ASSUME NEW r \in Requests, ReadRow(r) PROVE TimelineTypeOK'
  BY <1>1, <1>6 DEF ReadRow, CurrentRow, TimelineTypeOK
<1>7. ASSUME NEW r \in Requests, AnswerWithTimeline(r) PROVE TimelineTypeOK'
  <2>1. Timeline \in Seq(Requests)
    BY <1>1, TimelineTyped
  <2>2. timeline' \in [Requests -> Seq(Requests) \cup {None}]
    BY <1>1, <1>7, <2>1 DEF AnswerWithTimeline
  <2> QED BY <1>1, <1>7, <2>2 DEF AnswerWithTimeline, TimelineTypeOK
<1>8. CASE InsertForeign
  <2>1. clock' \in Nat /\ clock' = clock + 1
    BY <1>1, <1>8 DEF InsertForeign
  <2>2. [writer |-> None, at |-> clock'] \in LogRows
    BY <2>1 DEF LogRows
  <2>3. log' \in Seq(LogRows)
    BY <1>1, <1>8, <2>2 DEF InsertForeign
  <2> QED BY <1>1, <1>8, <2>1, <2>3 DEF InsertForeign, TimelineTypeOK
<1> QED
  BY <1>2, <1>3, <1>4, <1>5, <1>6, <1>7, <1>8
     DEF TimelineNext, ServeUntilAudit, Fails, timelineVars

\* What entries and timelines refer to does not change any more.
Fixed(q) ==
  pc[q] \in {"get", "done"} =>
    /\ pc'[q] \in {"get", "done"} /\ (pc[q] = "done" => pc'[q] = "done")
    /\ stamp'[q] = stamp[q] /\ precede'[q] = precede[q] /\ call'[q] = call[q]

\* A request that is done, or reads its answer, stays as it is.
LEMMA FixedStep ==
  ASSUME Inv, TimelineInv, [TimelineNext]_timelineVars, NEW q \in Requests
  PROVE  Fixed(q)
<1>1. TypeOK /\ TimelineTypeOK
  BY DEF Inv, TimelineInv
<1>2. CASE UNCHANGED vars /\ UNCHANGED <<stamp, precede>>
  BY <1>2 DEF vars, Fixed
<1>3. ASSUME NEW r \in Requests, SendAndNote(r) PROVE Fixed(q)
  BY <1>1, <1>3 DEF SendAndNote, Send, Goto, Reply, TypeOK, TimelineTypeOK, Fixed
<1>4. ASSUME NEW r \in Requests, ServeUntilAudit(r) PROVE Fixed(q)
  BY <1>1, <1>4 DEF ServeUntilAudit, Open, Read, Write, Goto, Reply, TypeOK, Fixed
<1>5. ASSUME NEW r \in Requests, ReadClock(r) PROVE Fixed(q)
  BY <1>1, <1>5 DEF ReadClock, vars, TimelineTypeOK, Fixed
<1>6. ASSUME NEW r \in Requests, InsertEntry(r) PROVE Fixed(q)
  BY <1>1, <1>6 DEF InsertEntry, RecordAudit, Goto, TypeOK, Fixed
<1>7. ASSUME NEW r \in Requests, AnswerWithTimeline(r) \/ Fails(r) PROVE Fixed(q)
  BY <1>1, <1>7 DEF AnswerWithTimeline, Get, Fails, StatementFails, Reply, TypeOK, Fixed
<1>8. CASE Crash /\ UNCHANGED <<stamp, precede>>
  BY <1>1, <1>8 DEF Crash, TypeOK, Fixed
<1> QED
  BY <1>2, <1>3, <1>4, <1>5, <1>6, <1>7, <1>8
     DEF TimelineNext, ReadRow, InsertForeign, Quiescent, timelineVars

\* Entries and timelines that are there already keep what is known of them.
LEMMA RecordsKept ==
  ASSUME Inv, TimelineInv, [TimelineNext]_timelineVars, UNCHANGED <<log, timeline>>
  PROVE  Records'
<1>1. /\ log \in Seq(LogRows) /\ timeline \in [Requests -> Seq(Requests) \cup {None}]
      /\ Entries /\ Answers /\ TimelineFollowsHistory /\ TimelineIsComplete
      /\ \A q \in Requests : Fixed(q)
  BY FixedStep DEF TimelineInv, TimelineTypeOK, Records
<1>2. \A i \in DOMAIN log : log[i].writer # None => log[i].writer \in Requests
  <2>1. \A i \in DOMAIN log : log[i] \in LogRows
    BY <1>1
  <2> QED BY <2>1 DEF LogRows
<1>3. \A r \in Requests : \A k \in DOMAIN timeline[r] :
        timeline[r] # None => timeline[r][k] \in Requests
  BY <1>1
<1>4. Entries'
  BY <1>1, <1>2 DEF Entries, Fixed
<1>5. Answers'
  BY <1>1, <1>3 DEF Answers, Fixed
<1>6. TimelineFollowsHistory'
  <2> SUFFICES ASSUME NEW r \in Requests, timeline[r] # None,
                      NEW i \in DOMAIN timeline[r], NEW j \in DOMAIN timeline[r], i < j
               PROVE  timeline[r][j] \notin precede'[timeline[r][i]]
    BY DEF TimelineFollowsHistory
  <2>1. timeline[r][i] \in Requests /\ pc[timeline[r][i]] \in {"get", "done"}
    BY <1>1, <1>3 DEF Answers
  <2>2. precede'[timeline[r][i]] = precede[timeline[r][i]]
    BY <1>1, <2>1 DEF Fixed
  <2> QED BY <1>1, <2>2 DEF TimelineFollowsHistory
<1>7. TimelineIsComplete'
  <2> SUFFICES ASSUME NEW r \in Requests, timeline[r] # None,
                      NEW i \in DOMAIN log, IsEvent(i)', log[i].writer \in precede'[r] \cup {r}
               PROVE  \/ \E k \in DOMAIN timeline[r] : timeline[r][k] = log[i].writer
                      \/ Cardinality({j \in DOMAIN log : Newer(j, i)}) >= PageSize
    BY DEF TimelineIsComplete, Newer
  <2>1. pc[r] = "done" /\ precede'[r] = precede[r]
    BY <1>1 DEF Answers, Fixed
  <2>2. log[i].writer # None /\ log[i].writer \in Requests
    BY <1>2 DEF IsEvent
  <2>3. call'[log[i].writer] = call[log[i].writer]
    BY <1>1, <2>2 DEF Entries, Fixed
  <2>4. IsEvent(i)
    BY <2>3 DEF IsEvent
  <2> QED BY <1>1, <2>1, <2>4 DEF TimelineIsComplete
<1> QED BY <1>4, <1>5, <1>6, <1>7 DEF Records

\* An entry is appended by a request that has none, or by a handler of another scenario.
LEMMA RecordsAppended ==
  ASSUME Inv, TimelineInv, [TimelineNext]_timelineVars,
         NEW w \in Requests \cup {None}, NEW t \in Nat,
         log' = Append(log, [writer |-> w, at |-> t]), UNCHANGED timeline,
         w # None => pc[w] = "audit" /\ pc'[w] = "get" /\ stamp[w] = t /\ stamp' = stamp
                       /\ stamp[w] # None
  PROVE  Records'
<1>1. /\ log \in Seq(LogRows) /\ timeline \in [Requests -> Seq(Requests) \cup {None}]
      /\ Entries /\ Answers /\ TimelineFollowsHistory /\ TimelineIsComplete
      /\ \A q \in Requests : Fixed(q)
  BY FixedStep DEF TimelineInv, TimelineTypeOK, Records
<1> DEFINE n == Len(log) + 1
<1>2. /\ DOMAIN log' = 1..n /\ DOMAIN log = 1..(n - 1) /\ n \in Nat
      /\ \A i \in DOMAIN log : log'[i] = log[i] /\ i < n
      /\ log'[n].writer = w /\ log'[n].at = t
  BY <1>1
<1>3. \A i \in DOMAIN log : log[i] \in LogRows
  BY <1>1
<1>4. \A i \in DOMAIN log : log[i].writer # None =>
        log[i].writer \in Requests /\ log[i].writer # w /\ Fixed(log[i].writer)
          /\ pc[log[i].writer] \in {"get", "done"}
  BY <1>1, <1>3 DEF LogRows, Entries
<1> HIDE DEF n
<1>5. \A i \in DOMAIN log' : i = n \/ i \in DOMAIN log
  BY <1>2
<1>6. Entries'
  <2>1. ASSUME NEW i \in DOMAIN log', log'[i].writer # None
        PROVE  /\ pc'[log'[i].writer] \in {"get", "done"}
               /\ stamp'[log'[i].writer] # None /\ log'[i].at = stamp'[log'[i].writer]
    <3>1. CASE i = n
      BY <1>2, <2>1, <3>1
    <3>2. CASE i \in DOMAIN log
      BY <1>1, <1>2, <1>4, <2>1, <3>2 DEF Entries, Fixed
    <3> QED BY <1>5, <3>1, <3>2
  <2>2. ASSUME NEW i \in DOMAIN log', NEW j \in DOMAIN log', log'[i].writer # None,
               log'[i].writer = log'[j].writer
        PROVE  i = j
    BY <1>1, <1>2, <1>4, <1>5, <2>2 DEF Entries
  <2> QED BY <2>1, <2>2 DEF Entries
<1>7. \A r \in Requests : \A k \in DOMAIN timeline[r] :
        timeline[r] # None => timeline[r][k] \in Requests
  BY <1>1
<1>8. Answers'
  BY <1>1, <1>7 DEF Answers, Fixed
<1>9. TimelineFollowsHistory'
  <2> SUFFICES ASSUME NEW r \in Requests, timeline[r] # None,
                      NEW i \in DOMAIN timeline[r], NEW j \in DOMAIN timeline[r], i < j
               PROVE  timeline[r][j] \notin precede'[timeline[r][i]]
    BY DEF TimelineFollowsHistory
  <2>1. timeline[r][i] \in Requests /\ pc[timeline[r][i]] \in {"get", "done"}
    BY <1>1, <1>7 DEF Answers
  <2>2. precede'[timeline[r][i]] = precede[timeline[r][i]]
    BY <1>1, <2>1 DEF Fixed
  <2> QED BY <1>1, <2>2 DEF TimelineFollowsHistory
<1>10. TimelineIsComplete'
  <2> SUFFICES ASSUME NEW r \in Requests, timeline[r] # None, NEW i \in DOMAIN log',
                      IsEvent(i)', log'[i].writer \in precede'[r] \cup {r}
               PROVE  \/ \E k \in DOMAIN timeline[r] : timeline[r][k] = log'[i].writer
                      \/ Cardinality({j \in DOMAIN log' : Newer(j, i)'}) >= PageSize
    BY DEF TimelineIsComplete
  <2>1. pc[r] = "done" /\ precede'[r] = precede[r]
    BY <1>1 DEF Answers, Fixed
  <2>2. \A q \in precede[r] \cup {r} : pc[q] = "done"
    BY <2>1, PrecedeDone DEF TimelineInv, Handlers
  <2>3. i \in DOMAIN log /\ log'[i] = log[i]
    BY <1>2, <1>5, <2>1, <2>2 DEF IsEvent
  <2>4. IsEvent(i)
    BY <1>4, <2>1, <2>2, <2>3 DEF IsEvent, Fixed
  <2> DEFINE old == {j \in DOMAIN log : Newer(j, i)}
             new == {j \in DOMAIN log' : Newer(j, i)'}
  <2>5. old \in SUBSET new
    BY <1>2, <2>3 DEF Newer
  <2>6. IsFiniteSet(new) /\ Cardinality(old) <= Cardinality(new)
    <3>1. IsFiniteSet(1..n)
      BY <1>2, FS_Interval
    <3>2. IsFiniteSet(new)
      BY <1>2, <3>1, FS_Subset
    <3> QED BY <2>5, <3>2, FS_Subset
  <2>7. Cardinality(old) \in Nat /\ Cardinality(new) \in Nat
    BY <2>5, <2>6, FS_Subset, FS_CardinalityType
  <2>8. \/ \E k \in DOMAIN timeline[r] : timeline[r][k] = log[i].writer
        \/ Cardinality(old) >= PageSize
    BY <1>1, <2>1, <2>3, <2>4 DEF TimelineIsComplete
  <2> HIDE DEF old, new
  <2>9. Cardinality(old) >= PageSize => Cardinality(new) >= PageSize
    BY <2>6, <2>7, PageAssumption
  <2> QED BY <2>3, <2>8, <2>9 DEF new
<1> QED BY <1>6, <1>8, <1>9, <1>10 DEF Records

\* The timeline of an answer that is complete now stays so; the new one has the events of
\* the page in the order of their times.
LEMMA RecordsAnswered ==
  ASSUME Inv, TimelineInv, [TimelineNext]_timelineVars,
         NEW r \in Requests, AnswerWithTimeline(r)
  PROVE  Records'
<1>1. CASE UNCHANGED timeline
  BY <1>1, RecordsKept DEF AnswerWithTimeline
<1>2. CASE timeline' = [timeline EXCEPT ![r] = Timeline]
  <2>1. /\ log \in Seq(LogRows) /\ timeline \in [Requests -> Seq(Requests) \cup {None}]
        /\ Handlers /\ Entries /\ Answers /\ TimelineFollowsHistory /\ TimelineIsComplete
        /\ \A q \in Requests : Fixed(q)
        /\ UNCHANGED log /\ UNCHANGED call /\ TypeOK
        /\ stamp \in [Requests -> Nat \cup {None}]
    BY FixedStep DEF Inv, TimelineInv, TimelineTypeOK, Records, AnswerWithTimeline, Get
  <2>2. /\ timeline'[r] = Timeline
        /\ \A q \in Requests : q # r => timeline'[q] = timeline[q]
        /\ pc[r] = "get" /\ pc'[r] = "done"
    BY <1>2, <2>1 DEF AnswerWithTimeline, Get, Reply, TypeOK
  <2>3. PICK e \in [1..Cardinality(Events) -> Events] :
          /\ Cardinality(Events) \in Nat
          /\ Timeline = [k \in 1..Cardinality(Events) |-> log[e[k]].writer]
          /\ \A a, b \in 1..Cardinality(Events) : a < b => Newer(e[b], e[a])
          /\ \A i \in Events : \E k \in 1..Cardinality(Events) : e[k] = i
    BY <2>1, TimelineListsEvents
  <2>4. /\ DOMAIN Timeline = 1..Cardinality(Events)
        /\ \A k \in DOMAIN Timeline : e[k] \in Events /\ Timeline[k] = log[e[k]].writer
    BY <2>3
  <2>5. \A i \in DOMAIN log : log[i].writer # None => log[i].writer \in Requests
    <3>1. \A i \in DOMAIN log : log[i] \in LogRows
      BY <2>1
    <3> QED BY <3>1 DEF LogRows
  <2>6. ASSUME NEW i \in Events
        PROVE  /\ i \in DOMAIN log /\ log[i].writer \in Requests
               /\ pc[log[i].writer] \in {"get", "done"}
               /\ log[i].at = stamp[log[i].writer] /\ log[i].at \in Nat
               /\ stamp[log[i].writer] # None
    <3>1. i \in DOMAIN log /\ log[i].writer # None
      BY DEF Events, Page, IsEvent
    <3>2. log[i].writer \in Requests
      BY <2>5, <3>1
    <3> QED BY <2>1, <3>1, <3>2 DEF Entries
  <2>7. \A q \in Requests : \A k \in DOMAIN timeline[q] :
          timeline[q] # None => timeline[q][k] \in Requests
    BY <2>1
  <2>8. Entries'
    BY <2>1, <2>5 DEF Entries, Fixed
  <2>9. Answers'
    <3> SUFFICES ASSUME NEW q \in Requests, timeline'[q] # None
                 PROVE  /\ pc'[q] = "done"
                        /\ \A k \in DOMAIN timeline'[q] : pc'[timeline'[q][k]] \in {"get", "done"}
      BY DEF Answers
    <3>1. CASE q = r
      BY <2>1, <2>2, <2>4, <2>6, <3>1 DEF Fixed
    <3>2. CASE q # r
      BY <2>1, <2>2, <2>7, <3>2 DEF Answers, Fixed
    <3> QED BY <3>1, <3>2
  <2>10. TimelineFollowsHistory'
    <3> SUFFICES ASSUME NEW q \in Requests, timeline'[q] # None,
                        NEW i \in DOMAIN timeline'[q], NEW j \in DOMAIN timeline'[q], i < j
                 PROVE  timeline'[q][j] \notin precede'[timeline'[q][i]]
      BY DEF TimelineFollowsHistory
    <3>1. CASE q # r
      <4>1. timeline[q][i] \in Requests /\ pc[timeline[q][i]] \in {"get", "done"}
        BY <2>1, <2>2, <2>7, <3>1 DEF Answers
      <4>2. precede'[timeline[q][i]] = precede[timeline[q][i]]
        BY <2>1, <4>1 DEF Fixed
      <4> QED BY <2>1, <2>2, <3>1, <4>2 DEF TimelineFollowsHistory
    <3>2. CASE q = r
      <4> DEFINE a == log[e[i]].writer
                 b == log[e[j]].writer
      <4>1. e[i] \in Events /\ e[j] \in Events /\ timeline'[q][i] = a /\ timeline'[q][j] = b
        BY <2>2, <2>4, <3>2
      <4>2. Newer(e[j], e[i])
        BY <2>2, <2>3, <2>4, <3>2
      <4>3. /\ a \in Requests /\ pc[a] \in {"get", "done"} /\ stamp[a] # None
            /\ log[e[i]].at = stamp[a] /\ log[e[j]].at = stamp[b]
            /\ stamp[a] \in Nat /\ stamp[b] \in Nat
        BY <2>6, <4>1
      <4>4. ~(stamp[b] < stamp[a])
        BY <4>2, <4>3 DEF Newer
      <4>5. b \notin precede[a]
        BY <2>1, <4>3, <4>4 DEF Handlers, HandlerAt
      <4> HIDE DEF a, b
      <4>6. precede'[a] = precede[a]
        BY <2>1, <4>3 DEF Fixed
      <4> QED BY <4>1, <4>5, <4>6
    <3> QED BY <3>1, <3>2
  <2>11. TimelineIsComplete'
    <3> SUFFICES ASSUME NEW q \in Requests, timeline'[q] # None,
                        NEW i \in DOMAIN log, IsEvent(i), log[i].writer \in precede'[q] \cup {q}
                 PROVE  \/ \E k \in DOMAIN timeline'[q] : timeline'[q][k] = log[i].writer
                        \/ Cardinality({j \in DOMAIN log : Newer(j, i)}) >= PageSize
      BY <2>1 DEF TimelineIsComplete, Newer, IsEvent
    <3>1. CASE q # r
      <4>1. pc[q] = "done" /\ precede'[q] = precede[q]
        BY <2>1, <2>2, <3>1 DEF Answers, Fixed
      <4> QED BY <2>1, <2>2, <3>1, <4>1 DEF TimelineIsComplete
    <3>2. CASE q = r
      <4>1. CASE i \in Page
        <5>1. PICK k \in 1..Cardinality(Events) : e[k] = i
          BY <2>3, <4>1 DEF Events
        <5> QED BY <2>2, <2>4, <3>2, <5>1
      <4>2. CASE i \notin Page
        <5> DEFINE newer == {j \in DOMAIN log : Newer(j, i)}
        <5>1. ~(Cardinality(newer) < PageSize)
          BY <4>2 DEF Page
        <5>2. Cardinality(newer) \in Nat
          <6>1. newer \in SUBSET (DOMAIN log)
            OBVIOUS
          <6>2. IsFiniteSet(newer)
            BY <2>1, <6>1, Ranks
          <6> QED BY <6>2, FS_CardinalityType
        <5> HIDE DEF newer
        <5>3. Cardinality(newer) >= PageSize
          BY <5>1, <5>2, PageAssumption
        <5> QED BY <5>3 DEF newer
      <4> QED BY <4>1, <4>2
    <3> QED BY <3>1, <3>2
  <2> QED BY <2>8, <2>9, <2>10, <2>11 DEF Records
<1> QED BY <1>1, <1>2 DEF AnswerWithTimeline

-----------------------------------------------------------------------------
(* Theorems.                                                               *)

LEMMA TimelineStepInv ==
  ASSUME Inv, Inv', TimelineInv, [TimelineNext]_timelineVars
  PROVE  TimelineInv'
<1>1. TimelineTypeOK' /\ [Next]_vars
  BY TimelineTypeStep, TimelineStepIsStep
<1>2. clock \in Nat /\ clock' \in Nat /\ clock <= clock'
  <2>1. clock \in Nat
    BY DEF TimelineInv, TimelineTypeOK
  <2>2. clock' = clock \/ clock' = clock + 1
    BY DEF TimelineNext, timelineVars, SendAndNote, ServeUntilAudit, ReadClock, InsertEntry,
           ReadRow, AnswerWithTimeline, Fails, InsertForeign
  <2> QED BY <2>1, <2>2
<1>3. ASSUME NEW r \in Requests, SendAndNote(r) PROVE Handlers' /\ Records'
  BY <1>1, <1>3, SendHandlers, RecordsKept DEF SendAndNote
<1>4. ASSUME NEW r \in Requests, ServeUntilAudit(r) PROVE Handlers' /\ Records'
  BY <1>1, <1>4, ServeHandlers, RecordsKept DEF ServeUntilAudit
<1>5. ASSUME NEW r \in Requests, ReadClock(r) PROVE Handlers' /\ Records'
  BY <1>1, <1>5, ReadClockHandlers, RecordsKept DEF ReadClock
<1>6. ASSUME NEW r \in Requests, InsertEntry(r) PROVE Handlers' /\ Records'
  <2>1. /\ stamp[r] # None /\ stamp[r] \in Nat /\ pc[r] = "audit" /\ pc'[r] = "get"
        /\ log' = Append(log, [writer |-> r, at |-> stamp[r]]) /\ UNCHANGED <<timeline, stamp>>
    BY <1>6 DEF InsertEntry, RecordAudit, Goto, TimelineInv, TimelineTypeOK, Inv, TypeOK
  <2>2. Records'
    BY <2>1, RecordsAppended
  <2> QED BY <1>1, <1>6, <2>2, InsertHandlers
<1>7. ASSUME NEW r \in Requests, ReadRow(r) PROVE Handlers' /\ Records'
  BY <1>1, <1>7, ReadRowHandlers, RecordsKept DEF ReadRow
<1>8. ASSUME NEW r \in Requests, AnswerWithTimeline(r) PROVE Handlers' /\ Records'
  BY <1>1, <1>8, AnswerHandlers, RecordsAnswered
<1>9. ASSUME NEW r \in Requests, Fails(r) PROVE Handlers' /\ Records'
  BY <1>1, <1>9, FailsHandlers, RecordsKept DEF Fails
<1>10. CASE InsertForeign
  <2>1. /\ log' = Append(log, [writer |-> None, at |-> clock'])
        /\ UNCHANGED <<vars, stamp, shown, timeline, precede>>
    BY <1>10 DEF InsertForeign
  <2>2. Records'
    BY <1>2, <2>1, RecordsAppended
  <2> QED BY <1>1, <1>2, <2>1, <2>2, QuietHandlers DEF TimelineInv
<1>11. CASE Crash /\ UNCHANGED <<log, clock, stamp, shown, timeline, precede>>
  BY <1>1, <1>11, CrashHandlers, RecordsKept DEF TimelineInv
<1>12. CASE UNCHANGED timelineVars
  BY <1>1, <1>2, <1>12, QuietHandlers, RecordsKept DEF timelineVars, TimelineInv
<1>13. CASE Quiescent /\ UNCHANGED <<log, clock, stamp, shown, timeline, precede>>
  BY <1>12, <1>13 DEF Quiescent, timelineVars
<1> QED
  BY <1>1, <1>3, <1>4, <1>5, <1>6, <1>7, <1>8, <1>9, <1>10, <1>11, <1>12, <1>13
     DEF TimelineNext, TimelineInv

\* TimelineInv is inductive, given what ScenarioReviewProofs knows of the handlers.
THEOREM TimelineInductive == TimelineSpec => []TimelineInv
<1>1. TimelineInit => TimelineInv
  BY TimelineInitInv
<1>2. Inv /\ Inv' /\ TimelineInv /\ [TimelineNext]_timelineVars => TimelineInv'
  BY TimelineStepInv
<1> QED BY <1>1, <1>2, TimelineReviewInv, PTL DEF TimelineSpec

\* The log, the times of entries and the answers keep their types (recordAudit, Get).
THEOREM TimelineTypeCorrect == TimelineSpec => []TimelineTypeOK
<1>1. TimelineInv => TimelineTypeOK
  BY DEF TimelineInv
<1> QED BY <1>1, TimelineInductive, PTL

\* An answer shows the scenario at least as it was when its request changed it, and as
\* everything answered before the request was sent had left it (Get after Update and
\* Transition).
THEOREM AnswersAreCurrent == TimelineSpec => []AnswerIsCurrent
<1>1. TimelineInv => AnswerIsCurrent
  <2> SUFFICES ASSUME TimelineInv, NEW r \in Requests, answer[r] = "ok",
                      NEW q \in precede[r] \cup {r}
               PROVE  shown[r].version > view[q].version
    BY DEF AnswerIsCurrent
  <2> QED BY DEF TimelineInv, Handlers, HandlerAt
<1> QED BY <1>1, TimelineInductive, PTL

\* A timeline never shows a transition before one that was answered before the first was
\* asked for, although entries are inserted in another order than their times
\* (recordAudit, List, Get).
THEOREM TimelinesFollowHistory == TimelineSpec => []TimelineFollowsHistory
<1>1. TimelineInv => TimelineFollowsHistory
  BY DEF TimelineInv, Records
<1> QED BY <1>1, TimelineInductive, PTL

\* A timeline contains its own transition and every one answered before it was asked for,
\* unless a whole page of newer entries was recorded (the page of Get).
THEOREM TimelinesAreComplete == TimelineSpec => []TimelineIsComplete
<1>1. TimelineInv => TimelineIsComplete
  BY DEF TimelineInv, Records
<1> QED BY <1>1, TimelineInductive, PTL
=============================================================================
