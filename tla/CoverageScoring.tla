---------------------------- MODULE CoverageScoring ----------------------------
(***************************************************************************)
(* backend/internal/algorithm: how the coverage of a scenario is computed  *)
(* from its text, its risk and its safeguards.  CoverageEvaluation takes   *)
(* this computation as given.                                              *)
(*                                                                         *)
(* An effectiveness is the decimal that was entered, in parts of Scale.    *)
(* What is computed from it is a float64, in parts of One: Floats are      *)
(* those from 0 to 26, and each operation is rounded to the nearest.  An   *)
(* independence key is its place in the order of strings, 0 the empty one: *)
(* the handlers store keys trimmed and in upper case, so that              *)
(* ResolveIndependence, which does it again, finds them so.  Times are     *)
(* those the snapshot holds, in whole days; EvaluationInputs has their     *)
(* truncation.                                                             *)
(*                                                                         *)
(* The variables are what is evaluated.  Their actions are the ways in     *)
(* which the other services change it; Evaluation is what Run computes     *)
(* from it.                                                                *)
(***************************************************************************)
EXTENDS Naturals, SequencesExt

CONSTANTS
  Scale,        \* parts of one that a decimal counts
  One,          \* parts of one that a float64 counts
  Floats,       \* the float64s
  Gap,          \* the widest gap between two of them below one
  Kinds,        \* safeguards as registered: keys, effectivenesses, intervals, dates
  Scenarios,    \* texts and risks of scenarios
  Unspecified,  \* the statement "unspecified"
  None,         \* no verification date
  MaxRows,      \* bound: safeguards of the scenario
  MaxTime       \* bound: the last day

\* A statement between two separators: what it says in lower case, and its spelling.
\* The empty statement says 0.
Fragments == [says : Nat, spelt : Nat]

ASSUME ConstantsAssumption ==
  /\ Scale \in Nat \ {0} /\ MaxRows \in Nat /\ MaxTime \in Nat
  /\ None \notin Nat /\ Unspecified \in Fragments
  /\ Kinds \subseteq [key : Nat, effectiveness : 1..Scale, interval : Nat \ {0},
                      verified : BOOLEAN]
  /\ \A s \in Scenarios :
       /\ s.likelihood \in 1..5 /\ s.severity \in 1..5
       /\ s.cause \in Seq(Fragments) /\ s.consequence \in Seq(Fragments)

\* One half and the whole numbers are float64s.  Up to 32 their gaps are at most 32
\* times as wide as those below one.
ASSUME FloatsAssumption ==
  /\ One \in Nat \ {0} /\ Gap \in Nat \ {0} /\ Floats \subseteq Nat
  /\ 2 * (One \div 2) = One /\ One \div 2 \in Floats
  /\ \A n \in 0..26 : n * One \in Floats
  /\ \A q \in 0..(One - 1) : \E k \in 1..Gap : q + k \in Floats
  /\ \A q \in 0..(26 * One - 1) : \E k \in 1..(32 * Gap) : q + k \in Floats

VARIABLES
  scenario,  \* the scenario
  rows,      \* its safeguards, in the order of their registration
  now        \* the clock, in days

vars == <<scenario, rows, now>>

-----------------------------------------------------------------------------
(* Rounding.                                                               *)

\* The float64 at q or next below it, and the one next above it.
Down(q) ==
  q - (CHOOSE k \in 0..(32 * Gap) :
         q - k \in Floats /\ \A j \in 0..(k - 1) : q - j \notin Floats)
Up(q) ==
  q + (CHOOSE k \in 1..(32 * Gap) :
         q + k \in Floats /\ \A j \in 1..(k - 1) : q + j \notin Floats)

\* The float64 nearest to n / d; of two that are as near the even one.
Nearest(n, d) ==
  LET a == Down(n \div d)
      b == Up(n \div d) IN
  IF 2 * n < (a + b) * d \/ (2 * n = (a + b) * d /\ a % (2 * (b - a)) = 0) THEN a ELSE b

\* As float64s the effectivenesses differ, and none is zero: comparing them (Better and
\* Ineligible) is comparing the decimals.
ASSUME EffectivenessAssumption ==
  \A a, b \in Kinds :
    /\ Nearest(a.effectiveness * One, Scale) # 0
    /\ Nearest(a.effectiveness * One, Scale) = Nearest(b.effectiveness * One, Scale) =>
         a.effectiveness = b.effectiveness

(* Sorting.                                                                *)

\* The pairs of elements of S that Op orders.
Order(S, Op(_, _)) == {e \in S \X S : Op(e[1], e[2])}

\* Elements that `less` does not tell apart stay in the order they have in s.
Precedes(s, less, i, j) ==
  <<s[i], s[j]>> \in less \/ (<<s[j], s[i]>> \notin less /\ i < j)

\* The elements of s at the places in I, sorted.
Sorted(s, I, less) ==
  LET n == Cardinality(I)
      order == CHOOSE t \in [1..n -> I] :
                 \A p, q \in 1..n : p < q => Precedes(s, less, t[p], t[q]) IN
  [p \in 1..n |-> s[order[p]]]

\* The numbers of S, in ascending order.
Ascending(S) == Sorted([n \in S |-> n], S, {})

(* NewSnapshot.                                                            *)

\* Mutant: safeguards with one key stay as the database returned them.
BeforeByKeyOnly(a, b) == a.key < b.key

Before(a, b) == a.key < b.key \/ (a.key = b.key /\ a.id < b.id)

ByKey(safeguards) ==
  Sorted(safeguards, DOMAIN safeguards, Order(ToSet(safeguards), Before))

NewSnapshot(s, safeguards, reference) ==
  [scenario |-> s, safeguards |-> ByKey(safeguards), reference |-> reference]

(* BuildGraph: the paths.  Nodes and edges of the graph are not used.      *)

\* Mutant: statements that differ in upper and lower case are kept apart.
SeenCaseSensitive(text, i) == \E j \in 1..(i - 1) : text[j] = text[i]

\* The statement at i was seen before.
Seen(text, i) == \E j \in 1..(i - 1) : text[j].says = text[i].says

SplitStatements(text) ==
  LET clean == {i \in DOMAIN text : text[i].says # 0 /\ ~Seen(text, i)} IN
  IF clean = {} THEN <<Unspecified>> ELSE Sorted(text, clean, {})

Paths(s) ==
  LET causes == SplitStatements(s.cause)
      consequences == SplitStatements(s.consequence)
      m == Len(consequences) IN
  [p \in 1..(Len(causes) * m) |->
     [cause |-> causes[((p - 1) \div m) + 1], consequence |-> consequences[((p - 1) % m) + 1]]]

(* ResolveIndependence.                                                    *)

Ineligible(row, reference) ==
  \/ row.state # "active"
  \/ row.effectiveness \notin 1..Scale
  \/ row.verifiedAt = None
  \/ row.interval = 0
  \/ reference > row.verifiedAt + row.interval

Rejects(row, reference) == row.key = 0 \/ Ineligible(row, reference)

\* Mutant: the weakest safeguard of a key is kept.
BetterIfWeaker(a, b) ==
  a.effectiveness < b.effectiveness \/ (a.effectiveness = b.effectiveness /\ a.id < b.id)

Better(a, b) ==
  a.effectiveness > b.effectiveness \/ (a.effectiveness = b.effectiveness /\ a.id < b.id)

Eligible(safeguards, reference) ==
  {i \in DOMAIN safeguards : ~Rejects(safeguards[i], reference)}

Keys(safeguards, reference) == {safeguards[i].key : i \in Eligible(safeguards, reference)}

Group(key, safeguards, reference) ==
  Sorted(safeguards, {i \in Eligible(safeguards, reference) : safeguards[i].key = key},
         Order(ToSet(safeguards), Better))

Retained(safeguards, reference) ==
  LET keys == Ascending(Keys(safeguards, reference)) IN
  [k \in DOMAIN keys |-> Group(keys[k], safeguards, reference)[1]]

Ids(safeguards) == [i \in DOMAIN safeguards |-> safeguards[i].id]

\* Mutant: the list of what is ignored starts one place late.
IgnoredAfterSecond(group) == Ids(SubSeq(group, 3, Len(group)))

Ignored(group) == Ids(SubSeq(group, 2, Len(group)))

Deduplicated(safeguards, reference) ==
  LET keys == Ascending({key \in Keys(safeguards, reference) :
                           Len(Group(key, safeguards, reference)) > 1}) IN
  [k \in DOMAIN keys |->
     LET group == Group(keys[k], safeguards, reference) IN
     [key |-> keys[k], kept |-> group[1].id, ignored |-> Ignored(group)]]

Rejected(safeguards, reference) ==
  Ascending({safeguards[i].id : i \in DOMAIN safeguards \ Eligible(safeguards, reference)})

ResolveIndependence(safeguards, reference) ==
  [retained |-> Retained(safeguards, reference),
   deduplicated |-> Deduplicated(safeguards, reference),
   rejected |-> Rejected(safeguards, reference)]

(* CalculateScore.                                                         *)

Factor(safeguard) == Nearest(One - Nearest(safeguard.effectiveness * One, Scale), 1)

\* The probability that no safeguard works.  The code sorts the safeguards by key and id
\* before it multiplies: they are retained in that order.
RemainingProbability(safeguards) ==
  LET after[n \in 0..Len(safeguards)] ==
        IF n = 0 THEN One ELSE Nearest(after[n - 1] * Factor(safeguards[n]), One) IN
  after[Len(safeguards)]

\* Mutant: the effectivenesses are added up.
CombinedByAddition(safeguards) ==
  FoldLeft(LAMBDA sum, safeguard :
             LET more == sum + Nearest(safeguard.effectiveness * One, Scale) IN
             IF more > One THEN One ELSE more,
           0, safeguards)

Combined(safeguards) == Nearest(One - RemainingProbability(safeguards), 1)

\* At least one half of what may happen is prevented.
Covered(safeguards) == Combined(safeguards) >= One \div 2

\* Mutant: the fraction of a point is dropped.
ResidualRoundedDown(initial, safeguards) ==
  LET risk == Nearest(initial * Nearest(One - Combined(safeguards), 1), 1) IN
  IF risk < One THEN 1 ELSE risk \div One

Residual(initial, safeguards) ==
  LET risk == Nearest(initial * Nearest(One - Combined(safeguards), 1), 1)
      residual == (risk + One - 1) \div One IN
  IF residual < 1 THEN 1 ELSE residual

\* "low", "medium", "high" and "critical", as 1 to 4.
RiskRank(score) == IF score >= 20 THEN 4 ELSE IF score >= 12 THEN 3 ELSE IF score >= 6 THEN 2 ELSE 1

Evaluate(snapshot) ==
  LET resolved == ResolveIndependence(snapshot.safeguards, snapshot.reference)
      retained == resolved.retained
      initial == snapshot.scenario.likelihood * snapshot.scenario.severity
      paths == Paths(snapshot.scenario) IN
  [combined |-> Combined(retained),
   paths |-> paths, uncovered |-> IF Covered(retained) THEN <<>> ELSE paths,
   residual |-> Residual(initial, retained),
   riskBefore |-> RiskRank(initial), riskAfter |-> RiskRank(Residual(initial, retained)),
   resolved |-> resolved]

Snapshot == NewSnapshot(scenario, rows, now)

\* What Run stores.
Evaluation == Evaluate(Snapshot)

-----------------------------------------------------------------------------
States == {"pending", "active", "invalid"}

Rows == [id : Nat, key : Nat, effectiveness : 1..Scale, interval : Nat \ {0},
         verifiedAt : Nat \cup {None}, state : States]

TypeOK ==
  /\ scenario \in Scenarios
  /\ rows \in Seq(Rows)
  /\ now \in Nat

Init == scenario \in Scenarios /\ rows = <<>> /\ now = 0

Register(kind) ==
  /\ Len(rows) < MaxRows
  /\ rows' = Append(rows, [id |-> Len(rows) + 1, key |-> kind.key,
                           effectiveness |-> kind.effectiveness, interval |-> kind.interval,
                           verifiedAt |-> IF kind.verified THEN now ELSE None,
                           state |-> IF kind.verified THEN "active" ELSE "pending"])
  /\ UNCHANGED <<scenario, now>>

Invalidate(i) ==
  /\ rows[i].state # "invalid"
  /\ rows' = [rows EXCEPT ![i].state = "invalid"]
  /\ UNCHANGED <<scenario, now>>

Age ==
  /\ now < MaxTime
  /\ now' = now + 1
  /\ UNCHANGED <<scenario, rows>>

\* Nothing more is registered, and the clock is at its bound.
Settled ==
  /\ Len(rows) = MaxRows /\ now = MaxTime
  /\ UNCHANGED vars

Next ==
  \/ \E kind \in Kinds : Register(kind)
  \/ \E i \in DOMAIN rows : Invalidate(i)
  \/ Age \/ Settled

Spec == Init /\ [][Next]_vars

-----------------------------------------------------------------------------
(* The reference: for each independence key the best safeguard that is     *)
(* active and not overdue works on its share of Scale equally likely days, *)
(* independently of the other keys.                                        *)

\* The safeguards that are active and not overdue, and have a key.
InForce(R, time) ==
  {row \in R : row.key # 0 /\ row.state = "active" /\ time - row.verifiedAt <= row.interval}

\* The days, and those on which none of the safeguards C works.
Days(K) == [K -> 1..Scale]
Unprotected(C, K) == {d \in Days(K) : \A row \in C : row.effectiveness < d[row.key]}

\* x and y differ by at most `slack`.
Within(x, y, slack) == x <= y + slack /\ y <= x + slack

\* The score is the share of the days on which a safeguard works, but for half a Gap for
\* each operation on float64s: three for each key, and one (ResolveIndependence and
\* CalculateScore).
ScoreMatchesReference ==
  LET counts == InForce(ToSet(rows), now)
      keys == {row.key : row \in counts}
      days == Cardinality(Days(keys))
      protected == days - Cardinality(Unprotected(counts, keys)) IN
  Within(2 * Evaluation.combined * days, 2 * One * protected,
         (3 * Cardinality(keys) + 1) * Gap * days)

\* Every safeguard of the snapshot is counted, reported as a duplicate or reported as
\* rejected, and only one of these; and no two that count have one key
\* (ResolveIndependence).
EachCountedOnce ==
  LET resolved == Evaluation.resolved
      retained == resolved.retained
      duplicates == resolved.deduplicated
      rejected == resolved.rejected
      Counts(id) == {p \in DOMAIN retained : retained[p].id = id}
      Ignores(id) == UNION {{e} \X {p \in DOMAIN duplicates[e].ignored :
                                     duplicates[e].ignored[p] = id} : e \in DOMAIN duplicates}
      Refuses(id) == {p \in DOMAIN rejected : rejected[p] = id} IN
  /\ \A i \in DOMAIN rows :
       LET id == rows[i].id IN
       Cardinality(Counts(id)) + Cardinality(Ignores(id)) + Cardinality(Refuses(id)) = 1
  /\ ToSet(Ids(retained)) \subseteq ToSet(Ids(rows))
  /\ \A e \in DOMAIN duplicates : ToSet(duplicates[e].ignored) \subseteq ToSet(Ids(rows))
  /\ ToSet(rejected) \subseteq ToSet(Ids(rows))
  /\ \A p, q \in DOMAIN retained : p # q => retained[p].key # retained[q].key

\* Neither the snapshot, and so the input hash, nor what is made of the safeguards
\* depends on the order in which the database returns them (the three sorts).
OrderIrrelevant ==
  \A order \in Bijection(DOMAIN rows, DOMAIN rows) :
    LET shuffled == [i \in DOMAIN rows |-> rows[order[i]]] IN
    /\ NewSnapshot(scenario, shuffled, now) = NewSnapshot(scenario, rows, now)
    /\ ResolveIndependence(shuffled, now) = ResolveIndependence(rows, now)

\* The paths are the pairs of a cause and a consequence that the text has, up to case,
\* each once, and at least one (splitStatements and BuildGraph).
PathsArePairs ==
  LET paths == Evaluation.paths
      Said(text) == LET said == {text[i].says : i \in DOMAIN text} \ {0} IN
                    IF said = {} THEN {Unspecified.says} ELSE said IN
  /\ {<<paths[p].cause.says, paths[p].consequence.says>> : p \in DOMAIN paths}
       = Said(scenario.cause) \X Said(scenario.consequence)
  /\ \A p, q \in DOMAIN paths :
       p # q => <<paths[p].cause.says, paths[p].consequence.says>>
                  # <<paths[q].cause.says, paths[q].consequence.says>>

\* Rounding decides only what is within it.  The residual risk is the initial risk on the
\* days without protection, rounded up: it is understated by no more than the rounding of
\* float64s, overstated by less than a point more than that, and never above the initial
\* risk.  But for the rounding, a path is reported as uncovered if and only if less than
\* half of the days are protected; and a safeguard that works on half of them covers every
\* path, whatever the rounding of the others (the threshold, the ceiling and the lower
\* bound of one in CalculateScore).
RoundingIsBounded ==
  LET initial == scenario.likelihood * scenario.severity
      counts == InForce(ToSet(rows), now)
      keys == {row.key : row \in counts}
      days == Cardinality(Days(keys))
      unprotected == Cardinality(Unprotected(counts, keys))
      slack == (3 * Cardinality(keys) + 1) * Gap * days
      slackOfRisk == (initial * (3 * Cardinality(keys) + 2) + 32) * Gap * days IN
  \A e \in {Evaluation} :
    /\ e.residual \in 1..initial /\ e.riskAfter <= e.riskBefore
    /\ 2 * One * initial * unprotected <= 2 * One * e.residual * days + slackOfRisk
    /\ e.residual > 1 =>
         2 * One * (e.residual - 1) * days < 2 * One * initial * unprotected + slackOfRisk
    /\ (\E path \in ToSet(e.paths) : path \notin ToSet(e.uncovered)) =>
         2 * One * unprotected <= One * days + slack
    /\ e.uncovered # <<>> => One * days < 2 * One * unprotected + slack
    /\ (\E row \in counts : 2 * row.effectiveness >= Scale) => e.uncovered = <<>>

\* The second result shows at least as much protection as the first.  (The quantifiers
\* let TLC evaluate each result once.)
NotWorse(first, second) ==
  \A a \in {first}, b \in {second} :
    /\ a.combined <= b.combined
    /\ b.residual <= a.residual /\ b.riskAfter <= a.riskAfter
    /\ ToSet(b.uncovered) \subseteq ToSet(a.uncovered)

\* What a step does to the coverage.
StepKeepsOrder ==
  \A old \in {Snapshot}, new \in {Snapshot'} :
    IF Len(new.safeguards) > Len(old.safeguards)
    THEN NotWorse(Evaluate(old), Evaluate(new)) ELSE NotWorse(Evaluate(new), Evaluate(old))

\* A safeguard more never lowers the coverage, raises the residual risk or uncovers a
\* path, although it may replace the one that counted for its key; invalidating one, and
\* the passing of time, never do the opposite (Evaluate from one Run to the next).
CoverageIsMonotone == [][StepKeepsOrder]_vars
================================================================================
