----------------------------- MODULE ApiGateProofs -----------------------------
(***************************************************************************)
(* First what holds of the limiter of RateLimiter, for any number of       *)
(* requests and callers, any limit, capacity and length of the window, and *)
(* any delay shorter than a window.                                        *)
(*                                                                         *)
(* Then what holds of the gate of ApiGate for any number of users, routes, *)
(* tokens, requests and changes of accounts: it uses the limiter as        *)
(* RateLimiter says it is used, and lets nobody in who was not entitled    *)
(* less than the life of a token, and the waits of two handlers, ago.      *)
(***************************************************************************)
EXTENDS ApiGate, FiniteSetTheorems, TLAPS

-----------------------------------------------------------------------------
(* The limiter: its invariant.                                             *)

Least(a, b) == IF a <= b THEN a ELSE b

\* The requests a window has let in.
Admitted(k, S) ==
  /\ S \subseteq AllowedOf(k)
  /\ \A q \in S : at[q] >= windows[k].start
  /\ Cardinality(S) = Least(windows[k].count, limit)

\* A window has let in the requests it counts, up to the limit, since it began.
WindowAt(k) ==
  windows[k] # None => windows[k].start <= now /\ \E S \in SUBSET Requests : Admitted(k, S)

\* A request has read the clock before it is counted, and not much before.
RequestAt(r) ==
  /\ outcome[r] # "new" => key[r] \in Keys /\ stamp[r] \in Times
  /\ outcome[r] = "waiting" => stamp[r] <= now /\ now <= stamp[r] + MaxDelay
  /\ outcome[r] \in {"allowed", "limited"} => at[r] \in Times /\ at[r] <= now

Inv ==
  /\ TypeOK
  /\ \A k \in Keys : WindowAt(k)
  /\ \A r \in Requests : RequestAt(r)
  /\ LimitedOnlyWhenFull

-----------------------------------------------------------------------------
(* Helpers.                                                                *)

\* The limit is a positive number.
LEMMA LimitPositive ==
  ASSUME TypeOK PROVE limit \in Nat \ {0}
BY ConstantsAssumption DEF TypeOK

\* The fields of a window are numbers.
LEMMA WindowFields ==
  ASSUME NEW w \in Windows PROVE w.start \in Times /\ w.count \in Nat /\ w # None
BY ConstantsAssumption DEF Windows, Times

\* A larger set of requests has a larger cardinality.
LEMMA Grows ==
  ASSUME NEW S, NEW T \in SUBSET Requests, S \subseteq T
  PROVE  Cardinality(S) \in Nat /\ Cardinality(T) \in Nat /\ Cardinality(S) <= Cardinality(T)
<1>1. IsFiniteSet(T) /\ IsFiniteSet(S)
  BY FS_Subset, ConstantsAssumption
<1> QED BY <1>1, FS_Subset, FS_CardinalityType

\* The window of a request that waits, once the request is counted: a new one, or the
\* one it has found with one more.
LEMMA CountedWindow ==
  ASSUME Inv, NEW r \in Requests, outcome[r] = "waiting"
  PROVE  /\ key[r] \in Keys /\ stamp[r] \in Times /\ stamp[r] <= now
         /\ Counted(r) \in Windows /\ Counted(r).start <= now
         /\ stamp[r] < Counted(r).start + Minute
         /\ \/ Counted(r).start = stamp[r] /\ Counted(r).count = 1
            \/ /\ windows[key[r]] \in Windows /\ windows[key[r]] # None
               /\ Counted(r).start = windows[key[r]].start
               /\ Counted(r).count = windows[key[r]].count + 1
<1> DEFINE k == key[r]
           w == windows[k]
<1>1. k \in Keys /\ stamp[r] \in Times /\ stamp[r] <= now /\ now \in Nat
        /\ Minute \in Nat /\ Minute > 0 /\ MaxTime \in Nat
  BY ConstantsAssumption DEF Inv, RequestAt, TypeOK, Times
<1>2. CASE Over(w, stamp[r])
  <2>1. Counted(r) = [start |-> stamp[r], count |-> 1]
    BY <1>2 DEF Counted
  <2> QED BY <1>1, <2>1 DEF Windows, Times
<1>3. CASE ~Over(w, stamp[r])
  <2>1. Counted(r) = [start |-> w.start, count |-> w.count + 1]
    BY <1>3 DEF Counted
  <2>2. w \in Windows /\ w # None /\ w.start <= now
    BY <1>1, <1>3 DEF Over, Inv, WindowAt, TypeOK
  <2>3. w.start \in Times /\ w.count \in Nat
    BY <2>2, WindowFields
  <2>4. stamp[r] < w.start + Minute
    BY <1>1, <1>3, <2>3 DEF Over, Elapsed, Times
  <2> HIDE DEF w, k
  <2>5. Counted(r) \in Windows /\ Counted(r).start = w.start /\ Counted(r).count = w.count + 1
    BY <2>1, <2>3 DEF Windows
  <2> QED BY <1>1, <2>2, <2>4, <2>5 DEF w, k
<1> QED BY <1>2, <1>3

\* The windows after a check: the one of the key is as counted, each other stays or is
\* removed, and what is removed is outdated.
LEMMA CheckedWindows ==
  ASSUME Inv, NEW r \in Requests, Check(r)
  PROVE  /\ windows' \in [Keys -> Windows \cup {None}]
         /\ windows'[key[r]] = Counted(r)
         /\ \A k \in Keys : k # key[r] =>
              \/ windows'[k] = windows[k]
              \/ windows'[k] = None /\ Outdated(windows[k], stamp[r])
<1> DEFINE ws == [windows EXCEPT ![key[r]] = Counted(r)]
<1>1. outcome[r] = "waiting" /\ windows' = Pruned(ws, stamp[r])
  BY DEF Check
<1>2. /\ key[r] \in Keys /\ stamp[r] \in Times /\ Counted(r) \in Windows
      /\ stamp[r] < Counted(r).start + Minute /\ Counted(r).start \in Times
  BY <1>1, CountedWindow, WindowFields
<1>3. ws \in [Keys -> Windows \cup {None}] /\ ws[key[r]] = Counted(r)
        /\ \A k \in Keys : k # key[r] => ws[k] = windows[k]
  BY <1>2 DEF Inv, TypeOK
<1>4. ~Outdated(Counted(r), stamp[r])
  BY <1>2, ConstantsAssumption DEF Outdated, Elapsed, Times
<1> HIDE DEF ws
<1>5. windows' = ws \/ windows' = [k \in Keys |-> IF Outdated(ws[k], stamp[r]) THEN None ELSE ws[k]]
  BY <1>1 DEF Pruned
<1>6. CASE windows' = ws
  BY <1>3, <1>6
<1>7. CASE windows' = [k \in Keys |-> IF Outdated(ws[k], stamp[r]) THEN None ELSE ws[k]]
  <2>1. \A k \in Keys : windows'[k] = IF Outdated(ws[k], stamp[r]) THEN None ELSE ws[k]
    BY <1>7
  <2>2. windows' \in [Keys -> Windows \cup {None}]
    BY <1>3, <1>7
  <2> QED BY <1>2, <1>3, <1>4, <2>1, <2>2
<1> QED BY <1>5, <1>6, <1>7

\* The initial states satisfy the invariant.
LEMMA InitInv == Init => Inv
<1> SUFFICES ASSUME Init PROVE Inv
  OBVIOUS
<1>1. TypeOK
  BY ConstantsAssumption DEF Init, TypeOK, Times
<1> QED BY <1>1 DEF Init, Inv, WindowAt, RequestAt, LimitedOnlyWhenFull

LEMMA ArriveStep ==
  ASSUME Inv, NEW r \in Requests, Arrive(r) PROVE Inv'
<1> USE DEF Inv
<1>1. PICK k \in Keys : key' = [key EXCEPT ![r] = k]
  BY DEF Arrive
<1>2. /\ outcome[r] = "new" /\ stamp' = [stamp EXCEPT ![r] = now]
      /\ outcome' = [outcome EXCEPT ![r] = "waiting"]
      /\ UNCHANGED <<limit, windows, now, at, advice>>
  BY DEF Arrive
<1>3. TypeOK'
  BY <1>1, <1>2 DEF TypeOK
<1>4. /\ key'[r] = k /\ stamp'[r] = now /\ outcome'[r] = "waiting"
      /\ \A q \in Requests : q # r =>
           key'[q] = key[q] /\ stamp'[q] = stamp[q] /\ outcome'[q] = outcome[q]
  BY <1>1, <1>2 DEF TypeOK
<1>5. \A j \in Keys : AllowedOf(j)' = AllowedOf(j)
  BY <1>2, <1>4 DEF AllowedOf
<1>6. \A j \in Keys : WindowAt(j)'
  BY <1>2, <1>5 DEF WindowAt, Admitted
<1>7. now \in Times /\ now <= now /\ now <= now + MaxDelay
  BY ConstantsAssumption DEF TypeOK, Times
<1>8. \A q \in Requests : RequestAt(q)'
  BY <1>1, <1>2, <1>4, <1>7 DEF RequestAt
<1>9. LimitedOnlyWhenFull'
  <2> SUFFICES ASSUME NEW q \in Requests, outcome'[q] = "limited"
               PROVE  Cardinality({p \in AllowedOf(key[q])' :
                                     at'[p] <= at'[q] /\ stamp'[q] < at'[p] + Minute}) >= limit
    BY <1>2, <1>4 DEF LimitedOnlyWhenFull, AllowedOf
  <2>1. q # r /\ outcome[q] = "limited" /\ key[q] \in Keys
    BY <1>4 DEF RequestAt
  <2>2. Cardinality({p \in AllowedOf(key[q]) : at[p] <= at[q] /\ stamp[q] < at[p] + Minute}) >= limit
    BY <2>1 DEF LimitedOnlyWhenFull
  <2> QED BY <1>2, <1>4, <1>5, <2>1, <2>2
<1> QED BY <1>3, <1>6, <1>8, <1>9

\* What a check leaves of the requests: only its own outcome is new.
LEMMA CheckedRequests ==
  ASSUME Inv, NEW r \in Requests, Check(r)
  PROVE  /\ outcome[r] = "waiting" /\ outcome'[r] \in {"allowed", "limited"} /\ at'[r] = now
         /\ Allowed(Counted(r)) <=> outcome'[r] = "allowed"
         /\ \A q \in Requests : q # r => outcome'[q] = outcome[q] /\ at'[q] = at[q]
         /\ UNCHANGED <<limit, now, key, stamp>>
         /\ \A k \in Keys : AllowedOf(k) \subseteq AllowedOf(k)'
         /\ TypeOK'
<1>1. /\ outcome[r] = "waiting" /\ UNCHANGED <<limit, now, key, stamp>>
      /\ at' = [at EXCEPT ![r] = now]
  BY DEF Check
<1>2. \/ /\ Allowed(Counted(r)) /\ outcome' = [outcome EXCEPT ![r] = "allowed"]
         /\ UNCHANGED advice
      \/ /\ ~Allowed(Counted(r)) /\ outcome' = [outcome EXCEPT ![r] = "limited"]
         /\ advice' = [advice EXCEPT ![r] = RetryAfter(Counted(r).start, stamp[r])]
  BY DEF Check
<1>3. outcome'[r] \in {"allowed", "limited"} /\ (Allowed(Counted(r)) <=> outcome'[r] = "allowed")
        /\ outcome' \in [Requests -> {"new", "waiting", "allowed", "limited"}]
        /\ \A q \in Requests : q # r => outcome'[q] = outcome[q]
  BY <1>2 DEF Inv, TypeOK
<1>4. at'[r] = now /\ at' \in [Requests -> Times \cup {None}]
        /\ \A q \in Requests : q # r => at'[q] = at[q]
  BY <1>1 DEF Inv, TypeOK
<1>5. RetryAfter(Counted(r).start, stamp[r]) \in Nat
  <2>1. stamp[r] \in Nat /\ Counted(r).start \in Nat /\ stamp[r] < Counted(r).start + Minute
    BY <1>1, CountedWindow, WindowFields DEF Times
  <2> DEFINE left == Counted(r).start + Minute - stamp[r]
  <2>2. left \in Nat /\ Second \in Nat \ {0}
    BY <2>1, ConstantsAssumption
  <2> HIDE DEF left
  <2>3. left \div Second \in Nat
    BY <2>2
  <2> QED BY <2>3 DEF RetryAfter, left
<1>6. advice' \in [Requests -> Nat]
  BY <1>2, <1>5 DEF Inv, TypeOK
<1>7. windows' \in [Keys -> Windows \cup {None}]
  BY CheckedWindows
<1>8. TypeOK'
  BY <1>1, <1>3, <1>4, <1>6, <1>7 DEF Inv, TypeOK
<1>9. \A k \in Keys : AllowedOf(k) \subseteq AllowedOf(k)'
  BY <1>1, <1>3 DEF AllowedOf
<1> QED BY <1>1, <1>3, <1>4, <1>8, <1>9

\* A window that a check has counted has let in the request, unless it was full.
LEMMA CheckedKey ==
  ASSUME Inv, NEW r \in Requests, Check(r), NEW k \in Keys, k = key[r] PROVE WindowAt(k)'
<1> DEFINE w == Counted(r)
<1>1. /\ k \in Keys /\ w \in Windows /\ w.start <= now /\ stamp[r] <= now
      /\ stamp[r] < w.start + Minute
      /\ \/ w.start = stamp[r] /\ w.count = 1
         \/ /\ windows[k] \in Windows /\ windows[k] # None
            /\ w.start = windows[k].start /\ w.count = windows[k].count + 1
  BY CheckedRequests, CountedWindow
<1>2. windows'[k] = w /\ now' = now /\ key' = key /\ limit' = limit
        /\ w.count \in Nat /\ w.start \in Times
        /\ now \in Times /\ limit \in Nat \ {0} /\ MaxTime \in Nat
  BY <1>1, CheckedWindows, CheckedRequests, WindowFields, LimitPositive, ConstantsAssumption
    DEF Inv, TypeOK
<1>3. /\ outcome[r] = "waiting" /\ at'[r] = now /\ AllowedOf(k) \subseteq AllowedOf(k)'
      /\ Allowed(w) <=> outcome'[r] = "allowed"
      /\ \A q \in Requests : q # r => at'[q] = at[q]
  BY <1>1, CheckedRequests
<1>4. r \notin AllowedOf(k)
  BY <1>3 DEF AllowedOf
<1>5. \A q \in AllowedOf(k) : q \in Requests /\ at'[q] = at[q]
  BY <1>3, <1>4 DEF AllowedOf
<1>6. outcome'[r] = "allowed" => r \in AllowedOf(k)'
  BY <1>2 DEF AllowedOf
<1> HIDE DEF w
<1>7. PICK S \in SUBSET Requests :
        /\ S \subseteq AllowedOf(k) /\ \A q \in S : at[q] >= w.start
        /\ Cardinality(S) = Least(w.count - 1, limit)
  <2>1. CASE w.count = 1
    <3>1. Cardinality({}) = Least(w.count - 1, limit)
      BY <2>1, <1>2, FS_EmptySet DEF Least
    <3> QED BY <3>1
  <2>2. CASE w.count # 1
    <3>1. windows[k] # None /\ w.start = windows[k].start /\ w.count = windows[k].count + 1
            /\ windows[k] \in Windows
      BY <1>1, <2>2
    <3>2. PICK S \in SUBSET Requests : Admitted(k, S)
      BY <1>1, <3>1 DEF Inv, WindowAt
    <3>3. windows[k].count = w.count - 1
      BY <3>1, WindowFields
    <3> QED BY <3>1, <3>2, <3>3 DEF Admitted
  <2> QED BY <2>1, <2>2
<1>8. w.count - 1 \in Nat
  BY <1>1, WindowFields
<1>9. CASE w.count <= limit
  <2>1. r \in AllowedOf(k)' /\ r \notin S
    BY <1>3, <1>4, <1>6, <1>7, <1>9 DEF Allowed
  <2>2. IsFiniteSet(S)
    BY FS_Subset, ConstantsAssumption
  <2>3. Cardinality(S \cup {r}) = Cardinality(S) + 1
    BY <2>1, <2>2, FS_AddElement
  <2>4. Cardinality(S \cup {r}) = Least(w.count, limit)
    BY <1>2, <1>7, <1>8, <1>9, <2>3 DEF Least
  <2>5. S \cup {r} \subseteq AllowedOf(k)'
    BY <1>3, <1>7, <2>1
  <2>6. \A q \in S \cup {r} : at'[q] >= w.start
    BY <1>1, <1>2, <1>3, <1>5, <1>7 DEF Times
  <2>7. Admitted(k, S \cup {r})'
    BY <1>2, <2>4, <2>5, <2>6 DEF Admitted
  <2> QED BY <1>1, <1>2, <2>7 DEF WindowAt
<1>10. CASE w.count > limit
  <2>1. Cardinality(S) = Least(w.count, limit)
    BY <1>2, <1>7, <1>8, <1>10 DEF Least
  <2>2. Admitted(k, S)'
    BY <1>2, <1>3, <1>5, <1>7, <2>1 DEF Admitted
  <2> QED BY <1>1, <1>2, <2>2 DEF WindowAt
<1> QED BY <1>2, <1>9, <1>10

LEMMA CheckStep ==
  ASSUME Inv, NEW r \in Requests, Check(r) PROVE Inv'
<1>1. TypeOK' /\ \A k \in Keys : AllowedOf(k) \subseteq AllowedOf(k)'
  BY CheckedRequests
<1>2. /\ outcome[r] = "waiting" /\ outcome'[r] \in {"allowed", "limited"} /\ at'[r] = now
      /\ Allowed(Counted(r)) <=> outcome'[r] = "allowed"
      /\ \A q \in Requests : q # r => outcome'[q] = outcome[q] /\ at'[q] = at[q]
      /\ now' = now /\ key' = key /\ stamp' = stamp /\ limit' = limit
  BY CheckedRequests
<1>3. now \in Times /\ MaxTime \in Nat /\ limit \in Nat \ {0}
  BY LimitPositive, ConstantsAssumption DEF Inv, TypeOK
<1>4. ASSUME NEW k \in Keys PROVE WindowAt(k)'
  <2>1. CASE k = key[r]
    BY <2>1, CheckedKey
  <2>2. CASE k # key[r]
    <3>1. SUFFICES ASSUME windows'[k] # None PROVE WindowAt(k)'
      BY DEF WindowAt
    <3>2. windows'[k] = windows[k]
      BY <2>2, <3>1, CheckedWindows
    <3>3. windows[k].start <= now
      BY <3>1, <3>2 DEF Inv, WindowAt
    <3>4. PICK S \in SUBSET Requests : Admitted(k, S)
      BY <3>1, <3>2 DEF Inv, WindowAt
    <3>5. \A q \in S : q # r
      BY <1>2, <3>4 DEF Admitted, AllowedOf
    <3>6. Admitted(k, S)'
      BY <1>1, <1>2, <3>2, <3>4, <3>5 DEF Admitted
    <3> QED BY <1>2, <3>2, <3>3, <3>6 DEF WindowAt
  <2> QED BY <2>1, <2>2
<1>5. ASSUME NEW q \in Requests PROVE RequestAt(q)'
  <2>1. RequestAt(q)
    BY DEF Inv
  <2>2. now <= now
    BY <1>3 DEF Times
  <2> QED BY <1>2, <1>3, <2>1, <2>2 DEF RequestAt
<1>6. LimitedOnlyWhenFull'
  <2> SUFFICES ASSUME NEW q \in Requests, outcome'[q] = "limited"
               PROVE  Cardinality({p \in AllowedOf(key[q])' :
                                     at'[p] <= at'[q] /\ stamp[q] < at'[p] + Minute}) >= limit
    BY <1>2 DEF LimitedOnlyWhenFull, AllowedOf
  <2> DEFINE full == {p \in AllowedOf(key[q])' : at'[p] <= at'[q] /\ stamp[q] < at'[p] + Minute}
  <2>1. key[q] \in Keys /\ full \in SUBSET Requests
    BY <1>2 DEF AllowedOf, Inv, RequestAt
  <2>2. \A p \in AllowedOf(key[q]) : p \in Requests /\ p # r /\ p \in AllowedOf(key[q])'
    BY <1>1, <1>2, <2>1 DEF AllowedOf
  <2>3. CASE q # r
    <3> DEFINE before == {p \in AllowedOf(key[q]) : at[p] <= at[q] /\ stamp[q] < at[p] + Minute}
    <3>1. Cardinality(before) >= limit
      BY <1>2, <2>3 DEF Inv, LimitedOnlyWhenFull
    <3>2. before \subseteq full
      BY <1>2, <2>2, <2>3
    <3> HIDE DEF before, full
    <3>3. Cardinality(full) >= limit
      BY <1>3, <2>1, <3>1, <3>2, Grows
    <3> QED BY <3>3 DEF full
  <2>4. CASE q = r
    <3>1. /\ Counted(r) \in Windows /\ stamp[r] \in Times
          /\ stamp[r] < Counted(r).start + Minute /\ Counted(r).count > limit
      BY <1>2, <1>3, <2>4, CountedWindow, WindowFields DEF Allowed
    <3>2. PICK k \in Keys : k = key[r]
      BY <2>1, <2>4
    <3>3. windows'[k] = Counted(r) /\ WindowAt(k)' /\ Counted(r) # None
      BY <3>1, <3>2, CheckedWindows, CheckedKey, WindowFields
    <3>4. PICK S \in SUBSET Requests : Admitted(k, S)'
      BY <1>2, <3>3 DEF WindowAt
    <3>5. /\ S \subseteq AllowedOf(k)' /\ \A p \in S : at'[p] >= Counted(r).start
          /\ Cardinality(S) = Least(Counted(r).count, limit)
      BY <1>2, <3>3, <3>4 DEF Admitted
    <3>6. Cardinality(S) = limit
      BY <1>3, <3>1, <3>5, WindowFields DEF Least
    <3>7. \A p \in S : at'[p] \in Times /\ at'[p] <= now
      BY <1>2, <1>5, <3>5 DEF AllowedOf, RequestAt
    <3>8. Counted(r).start \in Times
      BY <3>1, WindowFields
    <3>9. \A p \in S : at'[p] <= at'[q] /\ stamp[q] < at'[p] + Minute
      BY <1>2, <2>4, <3>1, <3>5, <3>7, <3>8, ConstantsAssumption DEF Times
    <3>10. S \subseteq full
      BY <1>2, <2>4, <3>2, <3>5, <3>9 DEF AllowedOf
    <3> HIDE DEF full
    <3>11. Cardinality(full) >= limit
      BY <1>3, <2>1, <3>6, <3>10, Grows
    <3> QED BY <3>11 DEF full
  <2> QED BY <2>3, <2>4
<1> QED BY <1>1, <1>4, <1>5, <1>6 DEF Inv

LEMMA TickStep ==
  ASSUME Inv, Tick PROVE Inv'
<1>1. /\ now < MaxTime /\ now' = now + 1 /\ now \in Times /\ MaxTime \in Nat /\ MaxDelay \in Nat
      /\ UNCHANGED <<limit, windows, key, stamp, outcome, at, advice>>
      /\ \A r \in Requests : outcome[r] = "waiting" => now < stamp[r] + MaxDelay
  BY ConstantsAssumption DEF Tick, Inv, TypeOK
<1>2. TypeOK'
  BY <1>1 DEF Inv, TypeOK, Times
<1>3. \A k \in Keys : AllowedOf(k)' = AllowedOf(k)
  BY <1>1 DEF AllowedOf
<1>4. ASSUME NEW k \in Keys PROVE WindowAt(k)'
  <2>1. windows[k] # None => windows[k].start \in Times
    BY WindowFields DEF Inv, TypeOK
  <2> QED BY <1>1, <1>3, <2>1 DEF Inv, WindowAt, Admitted, Times
<1>5. ASSUME NEW r \in Requests PROVE RequestAt(r)'
  <2>1. RequestAt(r)
    BY DEF Inv
  <2> QED BY <1>1, <2>1 DEF RequestAt, Times
<1>6. LimitedOnlyWhenFull'
  BY <1>1 DEF Inv, LimitedOnlyWhenFull, AllowedOf
<1> QED BY <1>2, <1>4, <1>5, <1>6 DEF Inv

LEMMA StutterStep ==
  ASSUME Inv, UNCHANGED vars PROVE Inv'
<1>1. UNCHANGED <<limit, windows, now, key, stamp, outcome, at, advice>>
  BY DEF vars
<1> QED BY <1>1 DEF Inv, TypeOK, WindowAt, Admitted, AllowedOf, RequestAt, LimitedOnlyWhenFull

\* Every step preserves the invariant.
LEMMA NextInv == Inv /\ [Next]_vars => Inv'
BY ArriveStep, CheckStep, TickStep, StutterStep DEF Next, Quiescent

LEMMA Inductive == Spec => []Inv
<1>1. Init => Inv
  BY InitInv
<1>2. Inv /\ [Next]_vars => Inv'
  BY NextInv
<1> QED BY <1>1, <1>2, PTL DEF Spec

-----------------------------------------------------------------------------
(* The theorems.                                                           *)

\* The types hold in all reachable states: in particular Retry-After is never negative.
THEOREM TypeCorrect == Spec => []TypeOK
<1>1. Inv => TypeOK
  BY DEF Inv
<1> QED BY <1>1, Inductive, PTL

\* A request is turned away only if as many as the limit were let in less than a minute
\* before it came, whatever the order in which requests get the mutex and whichever
\* windows are removed (Middleware).
THEOREM NoEarlyRefusal == Spec => []LimitedOnlyWhenFull
<1>1. Inv => LimitedOnlyWhenFull
  BY DEF Inv
<1> QED BY <1>1, Inductive, PTL

\* The removal of windows changes no decision: every request that waits, or comes later,
\* would replace them (Middleware).
THEOREM PruningSafe == Spec => PruningIsHarmless
<1> DEFINE A ==
      \A k \in Keys : windows[k] # None /\ windows'[k] = None =>
        /\ Over(windows[k], now')
        /\ \A r \in Requests : outcome'[r] = "waiting" => Over(windows[k], stamp'[r])
<1>1. Inv /\ [Next]_vars => [A]_vars
  <2> SUFFICES ASSUME Inv, [Next]_vars, NEW k \in Keys, windows[k] # None, windows'[k] = None
               PROVE  /\ Over(windows[k], now')
                      /\ \A r \in Requests : outcome'[r] = "waiting" => Over(windows[k], stamp'[r])
    BY DEF A
  <2>1. PICK r \in Requests : Check(r)
    BY DEF Next, Arrive, Tick, Quiescent, vars
  <2>2. Counted(r) # None /\ stamp[r] \in Times /\ stamp[r] <= now /\ outcome[r] = "waiting"
    BY <2>1, CheckedRequests, CountedWindow, WindowFields
  <2>3. Outdated(windows[k], stamp[r])
    BY <2>1, <2>2, CheckedWindows
  <2>4. windows[k].start \in Times /\ now \in Times
    BY WindowFields DEF Inv, TypeOK
  <2>5. stamp[r] > windows[k].start + 2 * Minute
    BY <2>2, <2>3, <2>4, ConstantsAssumption DEF Outdated, Elapsed, Times
  <2>6. now' = now /\ stamp' = stamp
    BY <2>1, CheckedRequests
  <2>7. ASSUME NEW t \in Times, t > windows[k].start + Minute PROVE Over(windows[k], t)
    BY <2>4, <2>7, ConstantsAssumption DEF Over, Elapsed, Times
  <2>8. Over(windows[k], now')
    BY <2>2, <2>4, <2>5, <2>6, <2>7, ConstantsAssumption DEF Times
  <2>9. ASSUME NEW q \in Requests, outcome'[q] = "waiting" PROVE Over(windows[k], stamp'[q])
    <3>1. outcome[q] = "waiting"
      BY <2>1, <2>9, CheckedRequests
    <3>2. stamp[q] \in Times /\ now <= stamp[q] + MaxDelay
      BY <3>1 DEF Inv, RequestAt
    <3>3. stamp[q] > windows[k].start + Minute
      BY <2>2, <2>4, <2>5, <3>2, ConstantsAssumption DEF Times
    <3> QED BY <2>6, <2>7, <3>2, <3>3
  <2> QED BY <2>8, <2>9
<1>2. PruningIsHarmless <=> [][A]_vars
  BY DEF PruningIsHarmless
<1> HIDE DEF A
<1> QED BY <1>1, <1>2, Inductive, PTL DEF Spec

-----------------------------------------------------------------------------
(* The windows of the past: which request was counted in which of them.    *)

\* The requests of key k that were counted.
Checked(k) == {r \in Requests : key[r] = k /\ outcome[r] \in {"allowed", "limited"}}

\* The requests of key k let in by its window that began at s, where w says in which
\* window a request was counted.
PassedIn(k, w, s) == {r \in AllowedOf(k) : w[r] = s}

\* Request r was counted in a window that began at s.
CountedAt(r, s) ==
  /\ s \in Times /\ s <= at[r] /\ stamp[r] < s + Minute
  /\ stamp[r] <= at[r] /\ at[r] <= stamp[r] + MaxDelay
  /\ outcome[r] = "limited" => advice[r] = RetryAfter(s, stamp[r])

\* A request that was let in has opened the window of key k that began at s.
Opened(k, w, s) == \E r \in AllowedOf(k) : w[r] = s /\ stamp[r] = s

\* The windows of key k so far: they begin a minute apart, each was opened by a request it
\* has let in, and lets in at most as many as the limit says, and exactly as many if it has
\* turned one away.
Sequence(k, w) ==
  /\ \A r \in Checked(k) : CountedAt(r, w[r]) /\ Opened(k, w, w[r])
  /\ \A r, q \in Checked(k) : w[r] < w[q] => w[r] + Minute <= w[q] /\ at[r] <= at[q]
  /\ \A s \in Times : Cardinality(PassedIn(k, w, s)) <= limit
  /\ \A r \in Checked(k) : outcome[r] = "limited" => Cardinality(PassedIn(k, w, w[r])) = limit

\* The window of key k is the last of them; where there is none, the last one is over for
\* every request that waits or is still to come.
Current(k, w) ==
  IF windows[k] = None
  THEN \A r \in Checked(k) : w[r] + Minute + MaxDelay < now
  ELSE /\ \A r \in Checked(k) : w[r] = windows[k].start \/ w[r] + Minute <= windows[k].start
       /\ Cardinality(PassedIn(k, w, windows[k].start)) = Least(windows[k].count, limit)
       /\ Opened(k, w, windows[k].start)

\* w is a history that leads to the state.
Explains(w) == \A k \in Keys : Sequence(k, w) /\ Current(k, w)

\* Every state has such a history.
Past == \E w \in [Requests -> Times] : Explains(w)

-----------------------------------------------------------------------------
\* Neither what was counted nor the past changes when a request comes or time passes.
LEMMA PastRests ==
  ASSUME Inv, NEW k \in Keys, NEW w \in [Requests -> Times], Sequence(k, w), Current(k, w),
         windows'[k] = windows[k], limit' = limit, now \in Nat, now' \in Nat, now <= now',
         \A r \in Requests :
           outcome'[r] \in {"allowed", "limited"} \/ outcome[r] \in {"allowed", "limited"} =>
             /\ outcome'[r] = outcome[r] /\ key'[r] = key[r] /\ stamp'[r] = stamp[r]
             /\ at'[r] = at[r] /\ advice'[r] = advice[r]
  PROVE  Sequence(k, w)' /\ Current(k, w)'
<1>1. Checked(k)' = Checked(k) /\ AllowedOf(k)' = AllowedOf(k)
  BY DEF Checked, AllowedOf
<1>2. \A s : PassedIn(k, w, s)' = PassedIn(k, w, s)
  BY <1>1 DEF PassedIn
<1>3. \A r \in Checked(k) : /\ outcome'[r] = outcome[r] /\ stamp'[r] = stamp[r]
                            /\ at'[r] = at[r] /\ advice'[r] = advice[r] /\ w[r] \in Nat
  BY DEF Checked, Times
<1>6. \A s : Opened(k, w, s)' <=> Opened(k, w, s)
  BY <1>1 DEF Opened, AllowedOf
<1>4. Sequence(k, w)'
  BY <1>1, <1>2, <1>3, <1>6 DEF Sequence, CountedAt
<1>5. Current(k, w)'
  BY <1>1, <1>2, <1>3, <1>6, ConstantsAssumption DEF Current
<1> QED BY <1>4, <1>5

\* A request that arrives is not counted yet.
LEMMA PastArrive ==
  ASSUME Inv, Past, NEW r \in Requests, Arrive(r) PROVE Past'
<1>1. PICK w \in [Requests -> Times] : Explains(w)
  BY DEF Past
<1>2. /\ outcome[r] = "new" /\ outcome'[r] = "waiting" /\ windows' = windows /\ now' = now
      /\ limit' = limit /\ at' = at /\ advice' = advice /\ now \in Nat /\ now <= now
      /\ \A q \in Requests : q # r =>
           outcome'[q] = outcome[q] /\ key'[q] = key[q] /\ stamp'[q] = stamp[q]
  BY DEF Arrive, Inv, TypeOK, Times
<1>3. Explains(w)'
  BY <1>1, <1>2, PastRests DEF Explains
<1> QED BY <1>1, <1>3 DEF Past

\* Time passes: a window that was over stays over.
LEMMA PastTick ==
  ASSUME Inv, Past, Tick PROVE Past'
<1>1. PICK w \in [Requests -> Times] : Explains(w)
  BY DEF Past
<1>2. /\ UNCHANGED <<limit, windows, key, stamp, outcome, at, advice>> /\ now' = now + 1
      /\ now \in Nat /\ now <= now' /\ now' \in Nat
  BY DEF Tick, Inv, TypeOK, Times
<1>3. Explains(w)'
  BY <1>1, <1>2, PastRests DEF Explains
<1> QED BY <1>1, <1>3 DEF Past

\* A check counts its request in the last window, or in a new one a minute later or more.
LEMMA PastCheckedKey ==
  ASSUME Inv, NEW r \in Requests, Check(r), NEW k \in Keys, k = key[r],
         NEW w \in [Requests -> Times], Sequence(k, w), Current(k, w),
         NEW s \in Times, s = Counted(r).start,
         NEW v \in [Requests -> Times], v = [w EXCEPT ![r] = s]
  PROVE  Sequence(k, v)' /\ Current(k, v)'
<1>1. /\ outcome[r] = "waiting" /\ outcome'[r] \in {"allowed", "limited"} /\ at'[r] = now
      /\ Allowed(Counted(r)) <=> outcome'[r] = "allowed"
      /\ \A q \in Requests : q # r => outcome'[q] = outcome[q] /\ at'[q] = at[q]
      /\ now' = now /\ key' = key /\ stamp' = stamp /\ limit' = limit
  BY CheckedRequests
<1>count. PICK c \in Nat : c = Counted(r).count
  BY <1>1, CountedWindow, WindowFields
<1>2. /\ Counted(r) \in Windows /\ s <= now /\ stamp[r] \in Times /\ stamp[r] <= now
      /\ stamp[r] < s + Minute /\ Counted(r) # None
      /\ now \in Times /\ now <= stamp[r] + MaxDelay
  BY <1>1, CountedWindow, WindowFields DEF Inv, RequestAt, TypeOK
<1>3. windows'[k] = Counted(r) /\ windows'[k].start = s /\ windows'[k].count = c
  BY <1>count, CheckedWindows
<1>4. /\ \A q \in Requests : q # r => advice'[q] = advice[q]
      /\ outcome'[r] = "limited" => advice'[r] = RetryAfter(s, stamp[r])
  BY <1>1 DEF Check, Inv, TypeOK
<1>5. v[r] = s /\ \A q \in Requests : q # r => v[q] = w[q] /\ v[q] \in Times
  OBVIOUS
<1>6. Checked(k)' = Checked(k) \cup {r} /\ r \notin Checked(k)
  BY <1>1 DEF Checked
<1>7. /\ outcome'[r] = "allowed" => AllowedOf(k)' = AllowedOf(k) \cup {r}
      /\ outcome'[r] # "allowed" => AllowedOf(k)' = AllowedOf(k)
      /\ r \notin AllowedOf(k) /\ AllowedOf(k) \subseteq Checked(k)
  BY <1>1 DEF AllowedOf, Checked
<1>bounds. Minute \in Nat \ {0} /\ limit \in Nat \ {0} /\ MaxDelay \in Nat /\ MaxDelay < Minute
        /\ Times \subseteq Nat
  BY LimitPositive, ConstantsAssumption DEF Inv, Times
<1>8. \A q \in Checked(k) : q \in Requests /\ w[q] \in Nat /\ CountedAt(q, w[q])
  BY <1>bounds DEF Checked, Sequence
<1>9. /\ \A q \in Checked(k) : w[q] = s \/ w[q] + Minute <= s
      /\ Cardinality(PassedIn(k, w, s)) = Least(c - 1, limit) /\ c >= 1
  <2>1. CASE Over(windows[k], stamp[r])
    <3>1. s = stamp[r] /\ c = 1
      BY <1>count, <2>1 DEF Counted
    <3>2. ASSUME NEW q \in Checked(k)
          PROVE  w[q] + Minute <= s
      <4>1. CASE windows[k] = None
        BY <1>2, <1>8, <1>bounds, <3>1, <4>1 DEF Current
      <4>2. CASE windows[k] # None
        <5>1. windows[k].start \in Nat
          BY <4>2, <1>bounds, WindowFields DEF Inv, TypeOK
        <5>2. stamp[r] >= windows[k].start + Minute
          <6>1. Elapsed(stamp[r], windows[k].start) >= Minute
            BY <2>1, <4>2 DEF Over
          <6>2. stamp[r] \in Nat
            BY <1>2, <1>bounds
          <6> QED BY <1>bounds, <5>1, <6>1, <6>2 DEF Elapsed
        <5>3. w[q] = windows[k].start \/ w[q] + Minute <= windows[k].start
          BY <4>2 DEF Current
        <5> QED BY <1>8, <1>bounds, <3>1, <5>1, <5>2, <5>3, <1>2
      <4> QED BY <4>1, <4>2
    <3>3. PassedIn(k, w, s) = {}
      BY <1>2, <1>7, <1>8, <1>bounds, <3>2 DEF PassedIn
    <3> QED BY <1>bounds, <3>1, <3>2, <3>3, FS_EmptySet DEF Least
  <2>2. CASE ~Over(windows[k], stamp[r])
    <3>1. windows[k] # None /\ s = windows[k].start /\ c = windows[k].count + 1
      <4>1. Counted(r) = [start |-> windows[k].start, count |-> windows[k].count + 1]
        BY <2>2 DEF Counted
      <4> QED BY <1>count, <2>2, <4>1 DEF Over
    <3>2. windows[k].count \in Nat
      BY <3>1, WindowFields DEF Inv, TypeOK
    <3> QED BY <3>1, <3>2 DEF Current
  <2> QED BY <2>1, <2>2
<1>10. \A x \in Times : x # s => PassedIn(k, v, x)' = PassedIn(k, w, x)
  BY <1>5, <1>7 DEF PassedIn, AllowedOf
<1>11. /\ outcome'[r] = "allowed" => PassedIn(k, v, s)' = PassedIn(k, w, s) \cup {r}
       /\ outcome'[r] # "allowed" => PassedIn(k, v, s)' = PassedIn(k, w, s)
       /\ r \notin PassedIn(k, w, s)
  BY <1>5, <1>7 DEF PassedIn, AllowedOf
<1>12. /\ Cardinality(PassedIn(k, v, s)') = Least(c, limit)
       /\ outcome'[r] # "allowed" => Cardinality(PassedIn(k, v, s)') = limit
  <2>1. IsFiniteSet(PassedIn(k, w, s))
    BY FS_Subset, ConstantsAssumption DEF PassedIn, AllowedOf
  <2>2. CASE c <= limit
    <3>1. outcome'[r] = "allowed"
      BY <1>count, <1>1, <2>2 DEF Allowed
    <3>2. Cardinality(PassedIn(k, w, s) \cup {r}) = Cardinality(PassedIn(k, w, s)) + 1
      BY <1>11, <2>1, FS_AddElement
    <3>3. Cardinality(PassedIn(k, w, s)) = c - 1
      BY <1>count, <1>9, <1>bounds, <2>2 DEF Least
    <3>4. Cardinality(PassedIn(k, v, s)') = Cardinality(PassedIn(k, w, s) \cup {r})
      BY <1>11, <3>1
    <3>5. Cardinality(PassedIn(k, v, s)') = c
      BY <1>count, <3>2, <3>3, <3>4
    <3> QED BY <1>count, <1>bounds, <2>2, <3>1, <3>5 DEF Least
  <2>3. CASE c > limit
    <3>1. outcome'[r] # "allowed"
      BY <1>count, <1>1, <1>bounds, <2>3 DEF Allowed
    <3> QED BY <1>2, <1>9, <1>11, <1>bounds, <2>3, <3>1 DEF Least
  <2> QED BY <1>2, <1>bounds, <2>2, <2>3
<1>13. \A q \in Checked(k)' : CountedAt(q, v[q])'
  <2>1. CountedAt(r, v[r])'
    BY <1>1, <1>2, <1>4, <1>5 DEF CountedAt
  <2>2. ASSUME NEW q \in Checked(k)
        PROVE  CountedAt(q, v[q])'
    BY <1>1, <1>4, <1>5, <1>6, <1>8, <2>2 DEF CountedAt
  <2> QED BY <1>6, <2>1, <2>2
<1>14. \A p, q \in Checked(k)' : v[p] < v[q] => v[p] + Minute <= v[q] /\ at'[p] <= at'[q]
  <2>1. \A q \in Checked(k) : at[q] <= now /\ at'[q] = at[q] /\ v[q] = w[q]
    BY <1>1, <1>5, <1>6, <1>8 DEF Inv, RequestAt, Checked
  <2> QED BY <1>1, <1>2, <1>5, <1>6, <1>8, <1>9, <1>bounds, <2>1 DEF Sequence
<1>15. \A x \in Times : Cardinality(PassedIn(k, v, x)') <= limit
  <2>1. Least(c, limit) <= limit
    BY <1>2, <1>bounds DEF Least
  <2> QED BY <1>10, <1>12, <2>1 DEF Sequence
<1>16. \A q \in Checked(k)' : outcome'[q] = "limited" => Cardinality(PassedIn(k, v, v[q])') = limit
  <2>1. CASE outcome'[r] # "allowed"
    BY <1>1, <1>2, <1>5, <1>6, <1>8, <1>10, <1>12, <2>1 DEF Sequence, CountedAt
  <2>2. CASE outcome'[r] = "allowed"
    <3>1. ASSUME NEW q \in Checked(k), outcome'[q] = "limited"
          PROVE  v[q] # s
      <4>1. Cardinality(PassedIn(k, w, w[q])) = limit
        BY <1>1, <1>6, <1>8, <3>1 DEF Sequence
      <4>2. c <= limit
        BY <1>count, <1>1, <2>2 DEF Allowed
      <4> QED BY <1>2, <1>5, <1>6, <1>9, <1>bounds, <1>8, <4>1, <4>2 DEF Least
    <3> QED BY <1>1, <1>5, <1>6, <1>8, <1>10, <2>2, <3>1 DEF Sequence, CountedAt
  <2> QED BY <2>1, <2>2
<1>19. \A x \in Times : Opened(k, w, x) => Opened(k, v, x)'
  BY <1>1, <1>5, <1>7 DEF Opened, AllowedOf
<1>20. Opened(k, v, s)'
  <2>1. CASE Over(windows[k], stamp[r])
    <3>1. s = stamp[r] /\ c = 1
      BY <1>count, <2>1 DEF Counted
    <3>2. outcome'[r] = "allowed"
      BY <1>count, <1>1, <1>bounds, <3>1 DEF Allowed
    <3> QED BY <1>1, <1>5, <1>7, <3>1, <3>2 DEF Opened
  <2>2. CASE ~Over(windows[k], stamp[r])
    <3>1. windows[k] # None /\ s = windows[k].start
      <4>1. Counted(r) = [start |-> windows[k].start, count |-> windows[k].count + 1]
        BY <2>2 DEF Counted
      <4> QED BY <2>2, <4>1 DEF Over
    <3> QED BY <1>19, <3>1 DEF Current
  <2> QED BY <2>1, <2>2
<1>21. \A q \in Checked(k)' : Opened(k, v, v[q])'
  BY <1>5, <1>6, <1>8, <1>19, <1>20 DEF Sequence
<1>17. Sequence(k, v)'
  BY <1>1, <1>13, <1>14, <1>15, <1>16, <1>21 DEF Sequence
<1>18. Current(k, v)'
  BY <1>1, <1>2, <1>3, <1>5, <1>6, <1>8, <1>9, <1>12, <1>20 DEF Current
<1> QED BY <1>17, <1>18

\* A check adds one request to the history of its key and leaves those of the others.
LEMMA PastCheck ==
  ASSUME Inv, Past, NEW r \in Requests, Check(r) PROVE Past'
<1>1. PICK w \in [Requests -> Times] : Explains(w)
  BY DEF Past
<1>start. PICK s \in Times : s = Counted(r).start
  BY CountedWindow, CheckedRequests, WindowFields
<1>new. PICK v \in [Requests -> Times] : v = [w EXCEPT ![r] = s]
  OBVIOUS
<1>2. key[r] \in Keys
  BY CountedWindow, CheckedRequests
<1>3. ASSUME NEW k \in Keys, k # key[r]
      PROVE  Sequence(k, v)' /\ Current(k, v)'
  <2>1. Checked(k)' = Checked(k) /\ AllowedOf(k)' = AllowedOf(k) /\ r \notin Checked(k)
    BY <1>3, CheckedRequests DEF Checked, AllowedOf
  <2>2. \A q \in Checked(k) : q \in Requests /\ q # r /\ v[q] = w[q] /\ w[q] \in Times
    BY <1>new, <2>1 DEF Checked
  <2>3. \A x : PassedIn(k, v, x)' = PassedIn(k, w, x)
    BY <2>1, <2>2 DEF PassedIn, AllowedOf, Checked
  <2>4. /\ \A q \in Requests : q # r =>
             outcome'[q] = outcome[q] /\ at'[q] = at[q] /\ advice'[q] = advice[q]
        /\ stamp' = stamp /\ now' = now /\ limit' = limit
    BY CheckedRequests DEF Check, Inv, TypeOK
  <2>8. \A x : Opened(k, v, x)' <=> Opened(k, w, x)
    BY <2>1, <2>2, <2>4 DEF Opened, AllowedOf, Checked
  <2>5. Sequence(k, v)'
    BY <1>1, <2>1, <2>2, <2>3, <2>4, <2>8 DEF Explains, Sequence, CountedAt
  <2>6. CASE windows'[k] = windows[k]
    BY <1>1, <2>1, <2>2, <2>3, <2>4, <2>5, <2>6, <2>8 DEF Explains, Current
  <2>7. CASE windows'[k] # windows[k]
    <3>1. windows'[k] = None /\ windows[k] # None /\ Outdated(windows[k], stamp[r])
      BY <1>3, <2>7, CheckedWindows DEF Outdated
    <3>2. /\ windows[k].start \in Nat /\ stamp[r] \in Nat /\ now \in Nat /\ stamp[r] <= now
          /\ Minute \in Nat \ {0} /\ MaxDelay \in Nat /\ MaxDelay < Minute
      BY <3>1, WindowFields, CheckedRequests, CountedWindow, ConstantsAssumption
        DEF Inv, TypeOK, Times
    <3>3. now > windows[k].start + 2 * Minute
      BY <3>1, <3>2 DEF Outdated, Elapsed
    <3>4. \A q \in Checked(k) : w[q] = windows[k].start \/ w[q] + Minute <= windows[k].start
      BY <1>1, <3>1 DEF Explains, Current
    <3>5. \A q \in Checked(k) : v[q] + Minute + MaxDelay < now
      BY <2>2, <3>2, <3>3, <3>4 DEF Times
    <3> QED BY <2>1, <2>4, <2>5, <3>1, <3>5 DEF Current
  <2> QED BY <2>5, <2>6, <2>7
<1>4. Sequence(key[r], v)' /\ Current(key[r], v)'
  <2>1. PICK k \in Keys : k = key[r]
    BY <1>2
  <2>2. Sequence(k, v)' /\ Current(k, v)'
    BY <1>start, <1>1, <1>new, <2>1, PastCheckedKey DEF Explains
  <2>3. key' = key
    BY CheckedRequests
  <2> QED BY <2>1, <2>2, <2>3
<1>5. Explains(v)'
  BY <1>3, <1>4, CheckedRequests DEF Explains
<1> QED BY <1>2, <1>5 DEF Past

\* No request was counted before the server starts.
LEMMA PastInit == Init => Past
<1> SUFFICES ASSUME Init PROVE Past
  OBVIOUS
<1>1. 0 \in Times /\ limit \in Nat
  BY ConstantsAssumption DEF Init, Times
<1>2. PICK w \in [Requests -> Times] : w = [r \in Requests |-> 0]
  BY <1>1
<1>3. ASSUME NEW k \in Keys PROVE Sequence(k, w) /\ Current(k, w)
  <2>1. Checked(k) = {} /\ windows[k] = None /\ \A s \in Times : PassedIn(k, w, s) = {}
    BY DEF Init, Checked, PassedIn, AllowedOf
  <2> QED BY <1>1, <2>1, FS_EmptySet DEF Sequence, Current
<1> QED BY <1>3 DEF Past, Explains

\* Every step keeps the past explained.
LEMMA PastNext == Inv /\ Past /\ [Next]_vars => Past'
<1> SUFFICES ASSUME Inv, Past, UNCHANGED vars PROVE Past'
  BY PastArrive, PastCheck, PastTick DEF Next, Quiescent
<1>1. PICK w \in [Requests -> Times] : Explains(w)
  BY DEF Past
<1>2. Explains(w)'
  BY <1>1 DEF vars, Explains, Sequence, Current, Checked, PassedIn, AllowedOf, CountedAt, Opened
<1> QED BY <1>2 DEF Past

\* Every reachable state has a history.
LEMMA PastInductive == Spec => [](Inv /\ Past)
<1>1. Init => Inv /\ Past
  BY InitInv, PastInit
<1>2. (Inv /\ Past) /\ [Next]_vars => (Inv /\ Past)'
  BY NextInv, PastNext
<1> QED BY <1>1, <1>2, PTL DEF Spec

\* Three windows of a key do not all let in requests within a minute less MaxDelay.
LEMMA AtMostTwoStarts ==
  ASSUME Inv, NEW k \in Keys, NEW w \in [Requests -> Times], Sequence(k, w), NEW t \in Times,
         NEW X, X = {r \in AllowedOf(k) : at[r] >= t /\ at[r] + MaxDelay < t + Minute}
  PROVE  \E a, b \in Times : \A r \in X : w[r] = a \/ w[r] = b
<1>1. \A r \in X : /\ r \in Checked(k) /\ w[r] \in Nat /\ w[r] \in Times /\ at[r] \in Nat
                   /\ w[r] <= at[r] /\ at[r] < w[r] + Minute + MaxDelay
                   /\ t <= at[r] /\ at[r] + MaxDelay < t + Minute
  <2> SUFFICES ASSUME NEW r \in X
               PROVE  /\ r \in Checked(k) /\ w[r] \in Nat /\ w[r] \in Times /\ at[r] \in Nat
                      /\ w[r] <= at[r] /\ at[r] < w[r] + Minute + MaxDelay
                      /\ t <= at[r] /\ at[r] + MaxDelay < t + Minute
    OBVIOUS
  <2>1. r \in Requests /\ r \in Checked(k) /\ t <= at[r] /\ at[r] + MaxDelay < t + Minute
    BY DEF AllowedOf, Checked
  <2>2. at[r] \in Nat /\ w[r] \in Times /\ w[r] \in Nat /\ stamp[r] \in Nat
    BY <2>1 DEF Inv, RequestAt, Checked, Times
  <2>3. w[r] <= at[r] /\ stamp[r] < w[r] + Minute /\ at[r] <= stamp[r] + MaxDelay
    BY <2>1 DEF Sequence, CountedAt
  <2> QED BY <2>1, <2>2, <2>3, ConstantsAssumption
<1>2. \A r, q \in X : w[r] < w[q] => w[r] + Minute <= w[q]
  BY <1>1 DEF Sequence
<1>3. Minute \in Nat \ {0} /\ MaxDelay \in Nat /\ MaxDelay < Minute /\ t \in Nat
  BY ConstantsAssumption DEF Times
<1>4. CASE X = {}
  BY <1>4
<1>5. CASE X # {}
  <2>1. PICK p \in X : TRUE
    BY <1>5
  <2>2. CASE \A q \in X : w[q] = w[p]
    BY <1>1, <2>1, <2>2
  <2>3. CASE \E q \in X : w[q] # w[p]
    <3>1. PICK q \in X : w[q] # w[p]
      BY <2>3
    <3>2. ASSUME NEW r \in X PROVE w[r] = w[p] \/ w[r] = w[q]
      <4>1. \A x, y, z \in X : ~(w[x] < w[y] /\ w[y] < w[z])
        <5> SUFFICES ASSUME NEW x \in X, NEW y \in X, NEW z \in X, w[x] < w[y], w[y] < w[z]
                     PROVE  FALSE
          OBVIOUS
        <5>1. w[x] + Minute <= w[y] /\ w[y] + Minute <= w[z]
          BY <1>2
        <5> QED BY <1>1, <1>3, <5>1
      <4> QED BY <1>1, <2>1, <3>1, <4>1
    <3> QED BY <1>1, <2>1, <3>1, <3>2
  <2> QED BY <2>2, <2>3
<1> QED BY <1>4, <1>5

\* A set within two sets of at most n, one of which has an element more than it.
LEMMA LessThanTwice ==
  ASSUME NEW A \in SUBSET Requests, NEW B \in SUBSET Requests, NEW n \in Nat,
         Cardinality(A) <= n, Cardinality(B) <= n,
         NEW X \in SUBSET (A \cup B), NEW o \in A, o \notin X
  PROVE  Cardinality(X) < 2 * n
<1>1. IsFiniteSet(A) /\ IsFiniteSet(B)
  BY FS_Subset, ConstantsAssumption
<1>2. /\ IsFiniteSet(A \ {o})
      /\ Cardinality(A \ {o}) = Cardinality(A) - 1
  BY <1>1, FS_RemoveElement
<1>3. /\ Cardinality(A \ {o}) \in Nat /\ Cardinality(B) \in Nat
      /\ Cardinality((A \ {o}) \cap B) \in Nat /\ Cardinality(A) \in Nat
      /\ Cardinality((A \ {o}) \cup B)
           = Cardinality(A \ {o}) + Cardinality(B) - Cardinality((A \ {o}) \cap B)
  BY <1>1, <1>2, FS_Union, FS_CardinalityType, FS_Intersection
<1>4. /\ X \subseteq (A \ {o}) \cup B
      /\ (A \ {o}) \cup B \in SUBSET Requests
  OBVIOUS
<1>5. Cardinality(X) \in Nat /\ Cardinality(X) <= Cardinality((A \ {o}) \cup B)
  BY <1>4, Grows
<1> QED BY <1>2, <1>3, <1>5

\* Of two windows a caller passes in within a minute the first was opened before (Middleware).
LEMMA OpenerCameBefore ==
  ASSUME Inv, NEW k \in Keys, NEW w \in [Requests -> Times], Sequence(k, w), NEW t \in Times,
         NEW X, X = {r \in AllowedOf(k) : at[r] >= t /\ at[r] + MaxDelay < t + Minute},
         NEW p \in X, NEW q \in X, w[p] < w[q]
  PROVE  \E o \in PassedIn(k, w, w[p]) : o \notin X
<1>1. p \in Checked(k) /\ q \in Checked(k) /\ q \in Requests /\ p \in Requests
  BY DEF AllowedOf, Checked
<1>2. PICK o \in AllowedOf(k) : w[o] = w[p] /\ stamp[o] = w[p]
  BY <1>1 DEF Sequence, Opened
<1>3. o \in PassedIn(k, w, w[p]) /\ o \in Checked(k) /\ o \in Requests
  BY <1>2 DEF PassedIn, AllowedOf, Checked
<1>4. /\ at[o] <= stamp[o] + MaxDelay /\ w[q] <= at[q] /\ w[p] + Minute <= w[q]
      /\ at[q] + MaxDelay < t + Minute
  BY <1>1, <1>3 DEF Sequence, CountedAt
<1>5. /\ at[o] \in Nat /\ at[q] \in Nat /\ w[p] \in Nat /\ w[q] \in Nat /\ t \in Nat
      /\ Minute \in Nat /\ MaxDelay \in Nat
  BY <1>1, <1>3, ConstantsAssumption DEF Checked, Inv, RequestAt, Times
<1>6. at[o] < t
  BY <1>2, <1>4, <1>5
<1>7. o \notin X
  BY <1>5, <1>6
<1> QED BY <1>3, <1>7

\* Two windows let in less than twice the limit, wherever the minute begins (Middleware).
THEOREM TwiceTheLimit == Spec => []AtMostTwoWindows
<1>1. Inv /\ Past => AtMostTwoWindows
  <2> SUFFICES ASSUME Inv, Past, NEW k \in Keys, NEW t \in Times,
                      NEW X, X = {r \in AllowedOf(k) : at[r] >= t /\ at[r] + MaxDelay < t + Minute}
               PROVE  Cardinality(X) < 2 * limit
    BY DEF AtMostTwoWindows
  <2>1. PICK w \in [Requests -> Times] : Sequence(k, w)
    BY DEF Past, Explains
  <2>2. PICK a \in Times, b \in Times : \A r \in X : w[r] = a \/ w[r] = b
    BY <2>1, AtMostTwoStarts
  <2>3. limit \in Nat \ {0} /\ Times \subseteq Nat
    BY LimitPositive DEF Inv, Times
  <2>4. \A s \in Times : PassedIn(k, w, s) \in SUBSET Requests
                         /\ Cardinality(PassedIn(k, w, s)) <= limit
    BY <2>1 DEF PassedIn, AllowedOf, Sequence
  <2>5. X \subseteq AllowedOf(k) /\ \A r \in X : r \in Requests /\ w[r] \in Times
    BY DEF AllowedOf
  <2>6. CASE \E p, q \in X : w[p] < w[q]
    <3>1. PICK p \in X, q \in X : w[p] < w[q]
      BY <2>6
    <3>2. PICK o \in PassedIn(k, w, w[p]) : o \notin X
      BY <2>1, <3>1, OpenerCameBefore
    <3> DEFINE A == PassedIn(k, w, w[p])
               B == PassedIn(k, w, w[q])
    <3>3. X \subseteq A \cup B
      BY <2>2, <2>3, <2>5, <3>1 DEF PassedIn
    <3>4. /\ A \in SUBSET Requests /\ B \in SUBSET Requests
          /\ Cardinality(A) <= limit /\ Cardinality(B) <= limit
      BY <2>4, <2>5, <3>1
    <3> HIDE DEF A, B
    <3>5. o \in A
      BY <3>2 DEF A
    <3> QED BY <2>3, <3>2, <3>3, <3>4, <3>5, LessThanTwice
  <2>7. CASE ~\E p, q \in X : w[p] < w[q]
    <3>1. CASE X = {}
      <4>1. Cardinality(X) = 0
        BY <3>1, FS_EmptySet
      <4> QED BY <2>3, <4>1
    <3>2. CASE X # {}
      <4>1. PICK p \in X : TRUE
        BY <3>2
      <4>2. X \subseteq PassedIn(k, w, w[p])
        <5>1. ASSUME NEW q \in X PROVE w[q] = w[p]
          <6>1. w[p] \in Nat /\ w[q] \in Nat /\ ~(w[p] < w[q]) /\ ~(w[q] < w[p])
            BY <2>3, <2>5, <2>7, <4>1
          <6> QED BY <6>1
        <5> QED BY <2>5, <5>1 DEF PassedIn
      <4>3. /\ PassedIn(k, w, w[p]) \in SUBSET Requests
            /\ Cardinality(PassedIn(k, w, w[p])) <= limit
        BY <2>4, <2>5, <4>1
      <4>4. Cardinality(X) \in Nat /\ Cardinality(PassedIn(k, w, w[p])) \in Nat
              /\ Cardinality(X) <= Cardinality(PassedIn(k, w, w[p]))
        BY <4>2, <4>3, Grows
      <4> QED BY <2>3, <4>3, <4>4
    <3> QED BY <3>1, <3>2
  <2> QED BY <2>6, <2>7
<1> QED BY <1>1, PastInductive, PTL

\* What is left after whole seconds is less than one more.
LEMMA OneSecondMore ==
  ASSUME NEW left \in Nat, NEW unit \in Nat \ {0}
  PROVE  left \div unit \in Nat /\ left < ((left \div unit) + 1) * unit
OBVIOUS

\* A caller that comes again a second after Retry-After is counted in a later window, which
\* turns it away only when it has let in as many others as the limit says (Middleware).
THEOREM RetryAfterHonoured == Spec => []RetryAfterIsHonest
<1>1. Inv /\ Past => RetryAfterIsHonest
  <2> SUFFICES ASSUME Inv, Past, NEW r \in Requests, NEW q \in Requests,
                      outcome[r] = "limited", outcome[q] = "limited", key[q] = key[r],
                      stamp[q] >= at[r] + (advice[r] + 1) * Second
               PROVE  Cardinality({p \in AllowedOf(key[r]) : at[p] >= at[r] /\ at[p] > stamp[r]}) >= limit
    BY DEF RetryAfterIsHonest
  <2>1. PICK k \in Keys : k = key[r]
    BY DEF Inv, RequestAt
  <2>2. PICK w \in [Requests -> Times] : Sequence(k, w)
    BY DEF Past, Explains
  <2>3. r \in Checked(k) /\ q \in Checked(k)
    BY <2>1 DEF Checked
  <2>4. /\ w[r] \in Nat /\ w[q] \in Nat /\ w[q] \in Times /\ stamp[r] \in Nat /\ stamp[q] \in Nat
        /\ at[r] \in Nat /\ at[q] \in Nat
    BY DEF Inv, RequestAt, Times
  <2>5. CountedAt(r, w[r]) /\ CountedAt(q, w[q])
    BY <2>2, <2>3 DEF Sequence
  <2>6. /\ stamp[r] < w[r] + Minute /\ stamp[r] <= at[r] /\ stamp[q] < w[q] + Minute
        /\ advice[r] = RetryAfter(w[r], stamp[r])
    BY <2>5 DEF CountedAt
  <2>7. PICK left \in Nat : left = w[r] + Minute - stamp[r]
    BY <2>4, <2>6, ConstantsAssumption
  <2>8. advice[r] = left \div Second
    BY <2>6, <2>7 DEF RetryAfter
  <2>9. PICK more \in Nat : more = ((left \div Second) + 1) * Second /\ left < more
    <3>1. left \div Second \in Nat /\ left < ((left \div Second) + 1) * Second
      BY OneSecondMore, ConstantsAssumption
    <3> DEFINE whole == left \div Second
    <3> HIDE DEF whole
    <3>2. whole \in Nat /\ left < (whole + 1) * Second
      BY <3>1 DEF whole
    <3>3. (whole + 1) * Second \in Nat
      BY <3>2, ConstantsAssumption
    <3> QED BY <3>2, <3>3 DEF whole
  <2>10. stamp[q] >= at[r] + more
    BY <2>8, <2>9
  <2>11. w[r] < w[q]
    BY <2>4, <2>6, <2>7, <2>9, <2>10, ConstantsAssumption
  <2> DEFINE S == PassedIn(k, w, w[q])
             T == {p \in AllowedOf(k) : at[p] >= at[r] /\ at[p] > stamp[r]}
  <2>12. Cardinality(S) = limit
    BY <2>2, <2>3 DEF Sequence
  <2>13. S \subseteq T
    <3> SUFFICES ASSUME NEW p \in S PROVE at[p] >= at[r] /\ at[p] > stamp[r]
      BY DEF PassedIn
    <3>1. p \in Checked(k) /\ w[p] = w[q] /\ p \in Requests
      BY DEF PassedIn, AllowedOf, Checked
    <3>2. at[r] <= at[p]
      BY <2>2, <2>3, <2>11, <3>1 DEF Sequence
    <3>3. at[p] \in Nat
      BY <3>1 DEF Checked, Inv, RequestAt, Times
    <3>4. w[r] + Minute <= w[q] /\ w[q] <= at[p]
      BY <2>2, <2>3, <2>11, <3>1 DEF Sequence, CountedAt
    <3> QED BY <2>4, <2>6, <3>2, <3>3, <3>4, ConstantsAssumption
  <2>14. S \in SUBSET Requests /\ T \in SUBSET Requests
    BY DEF PassedIn, AllowedOf
  <2> HIDE DEF S, T
  <2>15. Cardinality(T) >= limit
    BY <2>12, <2>13, <2>14, Grows, LimitPositive DEF Inv
  <2> QED BY <2>1, <2>15 DEF T
<1> QED BY <1>1, PastInductive, PTL

-----------------------------------------------------------------------------
(* The gate and the limiter.                                               *)

\* Every step of the gate is a step of the limiter or leaves it alone.
LEMMA GateStepIsStep ==
  ASSUME [GateNext]_allVars
  PROVE  [Next]_vars
<1>1. CASE UNCHANGED allVars
  BY <1>1 DEF allVars, vars
<1>2. ASSUME NEW r \in Requests, ReachLimiter(r) PROVE [Next]_vars
  BY <1>2 DEF ReachLimiter, Next
<1>3. ASSUME NEW r \in Requests, PassLimiter(r) PROVE [Next]_vars
  BY <1>3 DEF PassLimiter, Next
<1>4. ASSUME NEW l \in Logins, ReadAccount(l) \/ Login(l) PROVE UNCHANGED vars
  BY <1>4 DEF ReadAccount, Login
<1>8. ASSUME NEW r \in Requests, Authenticate(r) PROVE UNCHANGED vars
  BY <1>8 DEF Authenticate
<1>5. CASE ChangeAccount
  BY <1>5 DEF ChangeAccount
<1>6. CASE GateTick
  BY <1>6 DEF GateTick, Next
<1>7. CASE Resting
  BY <1>7 DEF Resting, allVars
<1> QED
  BY <1>1, <1>2, <1>3, <1>4, <1>5, <1>6, <1>7, <1>8 DEF GateNext

\* The gate implements the limiter: whatever is proved of RateLimiter holds behind
\* tokens and permissions, too.
THEOREM GateIsLimiter == GateSpec => Spec
<1>1. GateInit => Init
  BY DEF GateInit
<1>2. [GateNext]_allVars => [Next]_vars
  BY GateStepIsStep
<1> QED
  BY <1>1, <1>2, PTL DEF GateSpec, Spec

\* Behind the gate, too, a request is turned away only if as many of its key as the limit
\* says were let in less than a minute before.
THEOREM NoEarlyRefusalBehindGate == GateSpec => []LimitedOnlyWhenFull
BY GateIsLimiter, NoEarlyRefusal, PTL

\* Behind the gate, too, the removal of windows changes no decision.
THEOREM PruningSafeBehindGate == GateSpec => PruningIsHarmless
BY GateIsLimiter, PruningSafe, PTL

\* Behind the gate, too, a minute sees at most two windows of a key.
THEOREM TwiceTheLimitBehindGate == GateSpec => []AtMostTwoWindows
BY GateIsLimiter, TwiceTheLimit, PTL

\* Behind the gate, too, a caller that has waited as Retry-After says and a second more is
\* turned away again only if the limit has been filled anew.
THEOREM RetryAfterHonouredBehindGate == GateSpec => []RetryAfterIsHonest
BY GateIsLimiter, RetryAfterHonoured, PTL

-----------------------------------------------------------------------------
(* Entitlement.                                                            *)

\* The expiry in whole seconds is not after the expiry.
LEMMA RoundedDown ==
  ASSUME NEW a \in Nat, NEW b \in Nat \ {0}
  PROVE  (a \div b) * b \in Nat /\ (a \div b) * b <= a
OBVIOUS

\* Who may run evaluations is noted so; who could is noted with a tick of the past.
Noted(u) ==
  /\ MayRun(account[u]) => lastEntitled[u] = now
  /\ lastEntitled[u] # None => lastEntitled[u] \in Nat /\ lastEntitled[u] <= now

\* A login that compares has read the account, not long ago: if it could run evaluations,
\* it could at least until then.
Compared(l) ==
  logins[l] = "comparing" =>
    /\ user[l] \in Accounts
    /\ now <= user[l].read + MaxDelay
    /\ MayRun(user[l].role) =>
         /\ lastEntitled[user[l].name] # None
         /\ user[l].read <= lastEntitled[user[l].name]

\* A token that opens the gate is of a user who could run evaluations, and expires no
\* later than the life of a token, and the wait of a login, after that.
Timely(t) ==
  MayRun(t.role) =>
    /\ lastEntitled[t.user] # None
    /\ t.expires <= lastEntitled[t.user] + Expiry + MaxDelay

\* A request whose token was found valid not long ago had one that had not expired.
Cleared(r) ==
  admitted[r] # None =>
    /\ sent[r] \in [user : Users, scope : Scopes]
    /\ now <= admitted[r] + MaxDelay
    /\ lastEntitled[sent[r].user] # None
    /\ admitted[r] < lastEntitled[sent[r].user] + Expiry + MaxDelay

\* The limiter knows a request by its route and its user.
Keyed(r) ==
  outcome[r] # "new" =>
    /\ sent[r] \in [user : Users, scope : Scopes]
    /\ key[r] = <<sent[r].scope, sent[r].user>>

GateInv ==
  /\ GateTypeOK
  /\ \A u \in Users : Noted(u)
  /\ \A l \in Logins : Compared(l)
  /\ \A t \in tokens : Timely(t)
  /\ \A r \in Requests : Cleared(r)
  /\ \A r \in Requests : Keyed(r)
  /\ EntitledNotLongAgo

\* The clock and the stamps of the limiter are numbers.
LEMMA Clock ==
  ASSUME Inv
  PROVE  /\ now \in Nat /\ now \in Times /\ None \notin Nat
         /\ \A r \in Requests : outcome[r] # "new" => stamp[r] \in Nat
BY ConstantsAssumption DEF Inv, TypeOK, Times, RequestAt

LEMMA GateInitInv == GateInit => GateInv
<1> SUFFICES ASSUME GateInit PROVE GateInv
  OBVIOUS
<1>1. GateTypeOK
  BY GateAssumption, ConstantsAssumption DEF GateInit, GateTypeOK, Init, Times
<1>2. (\A u \in Users : Noted(u)) /\ (\A l \in Logins : Compared(l))
  BY DEF GateInit, Init, Noted, Compared
<1>3. /\ \A t \in tokens : Timely(t)
      /\ \A r \in Requests : Cleared(r) /\ Keyed(r)
      /\ EntitledNotLongAgo
  BY DEF GateInit, Init, Cleared, Keyed, EntitledNotLongAgo
<1> QED BY <1>1, <1>2, <1>3 DEF GateInv

\* When an entitlement is noted later, or not at all, nothing that was entitled before
\* becomes less so.
LEMMA LaterIsTimely ==
  ASSUME GateInv, NEW u \in Users, lastEntitled[u] # None,
         lastEntitled'[u] = now' \/ lastEntitled'[u] = lastEntitled[u],
         now \in Nat, now' \in Nat, now <= now'
  PROVE  /\ lastEntitled'[u] # None
         /\ lastEntitled'[u] \in Nat
         /\ lastEntitled[u] \in Nat
         /\ lastEntitled[u] <= lastEntitled'[u]
         /\ lastEntitled'[u] <= now'
<1>1. None \notin Nat
  BY ConstantsAssumption
<1> QED BY <1>1 DEF GateInv, Noted

\* Steps that note who is entitled, and leave logins, tokens and requests alone.
LEMMA NotingStep ==
  ASSUME GateInv, Inv, Inv', NoteEntitled, now <= now',
         account' \in [Users -> AccountRoles \cup {None}], changes' \in 0..MaxChanges,
         UNCHANGED <<logins, user, tokens, sent, admitted, key, stamp, outcome>>,
         \A l \in Logins : logins[l] = "comparing" => now' <= user[l].read + MaxDelay,
         \A r \in Requests : admitted[r] # None => now' <= admitted[r] + MaxDelay
  PROVE  GateInv'
<1>1. now \in Nat /\ now' \in Nat /\ now' \in Times /\ None \notin Nat
  BY Clock DEF Inv, TypeOK, Times
<1>2. \A u \in Users : lastEntitled'[u] = IF MayRun(account'[u]) THEN now' ELSE lastEntitled[u]
  BY DEF NoteEntitled
<1>3. GateTypeOK'
  <2>1. lastEntitled' \in [Users -> Times \cup {None}]
    BY <1>1 DEF NoteEntitled, GateInv, GateTypeOK
  <2> QED BY <2>1 DEF GateInv, GateTypeOK, Accounts, Times
<1>4. \A u \in Users : Noted(u)'
  BY <1>1, <1>2 DEF GateInv, Noted
<1>later. ASSUME NEW u \in Users, lastEntitled[u] # None
          PROVE  /\ lastEntitled'[u] # None /\ lastEntitled'[u] \in Nat
                 /\ lastEntitled[u] \in Nat /\ lastEntitled[u] <= lastEntitled'[u]
  BY <1>1, <1>2, <1>later, LaterIsTimely
<1>bounds. Expiry \in Nat /\ MaxDelay \in Nat /\ Times \subseteq Nat
  BY GateAssumption, ConstantsAssumption DEF Times
<1>5. ASSUME NEW t \in tokens' PROVE Timely(t)'
  <2>1. t \in tokens /\ t.user \in Users /\ t.expires \in Nat
    BY <1>5 DEF GateInv, GateTypeOK, Tokens
  <2> SUFFICES ASSUME MayRun(t.role)
               PROVE  /\ lastEntitled'[t.user] # None
                      /\ t.expires <= lastEntitled'[t.user] + Expiry + MaxDelay
    BY DEF Timely
  <2>2. lastEntitled[t.user] # None /\ t.expires <= lastEntitled[t.user] + Expiry + MaxDelay
    BY <2>1 DEF GateInv, Timely
  <2> QED BY <1>later, <1>bounds, <2>1, <2>2
<1>6. ASSUME NEW l \in Logins PROVE Compared(l)'
  <2> SUFFICES ASSUME logins[l] = "comparing"
               PROVE  /\ user[l] \in Accounts'
                      /\ now' <= user[l].read + MaxDelay
                      /\ MayRun(user[l].role) =>
                           /\ lastEntitled'[user[l].name] # None
                           /\ user[l].read <= lastEntitled'[user[l].name]
    BY DEF Compared
  <2>1. user[l] \in Accounts /\ user[l].name \in Users /\ user[l].read \in Times
    BY DEF GateInv, Compared, Accounts
  <2>2. ASSUME MayRun(user[l].role)
        PROVE  lastEntitled[user[l].name] # None /\ user[l].read <= lastEntitled[user[l].name]
    BY <2>2 DEF GateInv, Compared
  <2> QED BY <1>later, <1>bounds, <2>1, <2>2 DEF Accounts, Times
<1>7. ASSUME NEW r \in Requests PROVE Cleared(r)'
  <2> SUFFICES ASSUME admitted[r] # None
               PROVE  /\ sent[r] \in [user : Users, scope : Scopes]
                      /\ now' <= admitted[r] + MaxDelay
                      /\ lastEntitled'[sent[r].user] # None
                      /\ admitted[r] < lastEntitled'[sent[r].user] + Expiry + MaxDelay
    BY DEF Cleared
  <2>1. /\ sent[r] \in [user : Users, scope : Scopes] /\ sent[r].user \in Users
        /\ lastEntitled[sent[r].user] # None /\ admitted[r] \in Times
        /\ admitted[r] < lastEntitled[sent[r].user] + Expiry + MaxDelay
    BY DEF GateInv, GateTypeOK, Cleared
  <2>2. PICK u \in Users : u = sent[r].user
    BY <2>1
  <2>3. /\ lastEntitled'[u] # None /\ lastEntitled'[u] \in Nat
        /\ lastEntitled[u] \in Nat /\ lastEntitled[u] <= lastEntitled'[u]
    BY <1>later, <2>1, <2>2
  <2>4. admitted[r] \in Nat
    BY <1>bounds, <2>1
  <2>5. admitted[r] < lastEntitled'[u] + Expiry + MaxDelay
    BY <1>bounds, <2>1, <2>2, <2>3, <2>4
  <2> QED BY <2>1, <2>2, <2>3, <2>5
<1>8. \A r \in Requests : Keyed(r)'
  BY DEF GateInv, Keyed
<1>9. EntitledNotLongAgo'
  <2> SUFFICES ASSUME NEW r \in Requests, outcome[r] # "new"
               PROVE  /\ lastEntitled'[sent[r].user] # None
                      /\ stamp[r] < lastEntitled'[sent[r].user] + Expiry + 2 * MaxDelay
    BY DEF EntitledNotLongAgo
  <2>1. /\ sent[r].user \in Users /\ lastEntitled[sent[r].user] # None
        /\ stamp[r] < lastEntitled[sent[r].user] + Expiry + 2 * MaxDelay
    BY DEF GateInv, Keyed, EntitledNotLongAgo
  <2>2. stamp[r] \in Nat
    BY Clock
  <2> QED BY <1>later, <1>bounds, <2>1, <2>2
<1> QED BY <1>3, <1>4, <1>5, <1>6, <1>7, <1>8, <1>9 DEF GateInv

\* Steps of logins leave requests, accounts and what is noted of them alone.
LEMMA LoginRests ==
  ASSUME GateInv, UNCHANGED <<vars, account, changes, sent, admitted, lastEntitled>>,
         logins' \in [Logins -> {"new", "comparing", "answered"}],
         user' \in [Logins -> Accounts \cup {None}], tokens' \subseteq Tokens,
         \A l \in Logins : Compared(l)', \A t \in tokens' : Timely(t)'
  PROVE  GateInv'
<1>1. UNCHANGED <<now, key, stamp, outcome>>
  BY DEF vars
<1>2. GateTypeOK'
  BY <1>1 DEF GateInv, GateTypeOK, Accounts, Times
<1> QED BY <1>1, <1>2 DEF GateInv, Noted, Cleared, Keyed, EntitledNotLongAgo

\* An account that is read now is entitled now, if at all.
LEMMA ReadAccountStep ==
  ASSUME GateInv, Inv, NEW l \in Logins, ReadAccount(l)
  PROVE  GateInv'
<1>1. PICK u \in Users :
        /\ account[u] # None
        /\ user' = [user EXCEPT ![l] = [name |-> u, role |-> account[u], read |-> now]]
  BY DEF ReadAccount
<1>2. /\ logins' = [logins EXCEPT ![l] = "comparing"]
      /\ UNCHANGED <<vars, account, changes, tokens, sent, admitted, lastEntitled>>
      /\ now' = now
  BY DEF ReadAccount, vars
<1>3. now \in Times /\ now \in Nat /\ MaxDelay \in Nat /\ account[u] \in AccountRoles
  BY <1>1, Clock, ConstantsAssumption DEF GateInv, GateTypeOK
<1>4. [name |-> u, role |-> account[u], read |-> now] \in Accounts
  BY <1>3 DEF Accounts
<1>5. /\ logins' \in [Logins -> {"new", "comparing", "answered"}]
      /\ user' \in [Logins -> Accounts \cup {None}]
      /\ user'[l] = [name |-> u, role |-> account[u], read |-> now]
      /\ \A m \in Logins \ {l} : user'[m] = user[m] /\ logins'[m] = logins[m]
  BY <1>1, <1>2, <1>4 DEF GateInv, GateTypeOK
<1>6. Compared(l)'
  <2>1. now' <= user'[l].read + MaxDelay /\ user'[l] \in Accounts'
    BY <1>2, <1>3, <1>4, <1>5 DEF Accounts, Times
  <2>2. MayRun(account[u]) => lastEntitled[u] = now /\ now # None /\ now <= now
    BY <1>3, Clock DEF GateInv, Noted
  <2> QED BY <1>2, <1>5, <2>1, <2>2 DEF Compared
<1>7. ASSUME NEW m \in Logins, m # l PROVE Compared(m)'
  BY <1>2, <1>5, <1>7 DEF GateInv, Compared, Accounts, Times
<1>8. \A t \in tokens' : Timely(t)'
  BY <1>2 DEF GateInv, Timely
<1> QED
  BY <1>2, <1>5, <1>6, <1>7, <1>8, LoginRests DEF GateInv, GateTypeOK

\* A token that is issued now expires no later than the life of a token from now, and the
\* account was read not long before.
LEMMA LoginStep ==
  ASSUME GateInv, Inv, NEW l \in Logins, Login(l)
  PROVE  GateInv'
<1>1. /\ logins[l] = "comparing" /\ logins' = [logins EXCEPT ![l] = "answered"]
      /\ user' = [user EXCEPT ![l] = None] /\ tokens' = tokens \cup {NewToken(l)}
      /\ UNCHANGED <<vars, account, changes, sent, admitted, lastEntitled>>
      /\ now' = now
  BY DEF Login, vars
<1>2. /\ user[l] \in Accounts /\ now <= user[l].read + MaxDelay
      /\ user[l].name \in Users /\ user[l].role \in AccountRoles /\ user[l].read \in Nat
      /\ MayRun(user[l].role) =>
           /\ lastEntitled[user[l].name] # None
           /\ user[l].read <= lastEntitled[user[l].name]
  BY <1>1 DEF GateInv, Compared, Accounts, Times
<1>3. /\ NewToken(l) \in Tokens
      /\ NewToken(l).user = user[l].name /\ NewToken(l).role = user[l].role
      /\ NewToken(l).expires \in Nat /\ NewToken(l).expires <= now + Expiry
  <2>1. now + Expiry \in Nat
    BY Clock, GateAssumption
  <2>2. /\ ((now + Expiry) \div Second) * Second \in Nat
        /\ ((now + Expiry) \div Second) * Second <= now + Expiry
    BY <2>1, RoundedDown, ConstantsAssumption
  <2> QED BY <1>2, <2>2 DEF NewToken, Tokens
<1>token. PICK token \in Tokens : token = NewToken(l)
  BY <1>3
<1>4. Timely(token)'
  <2> SUFFICES ASSUME MayRun(user[l].role)
               PROVE  /\ lastEntitled[user[l].name] # None
                      /\ token.expires <= lastEntitled[user[l].name] + Expiry + MaxDelay
    BY <1>1, <1>3, <1>token DEF Timely
  <2>1. lastEntitled[user[l].name] \in Nat
    BY <1>2 DEF GateInv, Noted
  <2> QED BY <1>2, <1>3, <1>token, <2>1, Clock, GateAssumption, ConstantsAssumption
<1>5. ASSUME NEW t \in tokens' PROVE Timely(t)'
  <2>1. CASE t = token
    BY <1>4, <2>1
  <2>2. CASE t # token
    BY <1>1, <1>token, <2>2 DEF GateInv, Timely
  <2> QED BY <2>1, <2>2
<1>6. /\ logins' \in [Logins -> {"new", "comparing", "answered"}]
      /\ user' \in [Logins -> Accounts \cup {None}] /\ tokens' \subseteq Tokens
      /\ logins'[l] = "answered"
      /\ \A m \in Logins \ {l} : user'[m] = user[m] /\ logins'[m] = logins[m]
  BY <1>1, <1>3 DEF GateInv, GateTypeOK
<1>7. ASSUME NEW m \in Logins PROVE Compared(m)'
  BY <1>1, <1>6, <1>7 DEF GateInv, Compared, Accounts, Times
<1> QED BY <1>1, <1>5, <1>6, <1>7, LoginRests

\* A token opens the gate before it expires.
LEMMA AuthenticateStep ==
  ASSUME GateInv, Inv, NEW r \in Requests, Authenticate(r)
  PROVE  GateInv'
<1>1. PICK token \in tokens, scope \in Scopes :
        /\ LetIn(token)
        /\ sent' = [sent EXCEPT ![r] = [user |-> token.user, scope |-> scope]]
  BY DEF Authenticate
<1>2. /\ sent[r] = None /\ admitted' = [admitted EXCEPT ![r] = now]
      /\ UNCHANGED <<vars, account, changes, logins, user, tokens, lastEntitled>>
      /\ UNCHANGED <<now, key, stamp, outcome>>
  BY DEF Authenticate, vars
<1>3. token \in Tokens /\ token.user \in Users /\ token.expires \in Nat
        /\ now \in Times /\ now \in Nat /\ None \notin Nat
  BY <1>1, Clock DEF GateInv, GateTypeOK, Tokens
<1>4. GateTypeOK'
  BY <1>1, <1>2, <1>3 DEF GateInv, GateTypeOK, Accounts, Times
<1>5. /\ \A u \in Users : Noted(u)'
      /\ \A l \in Logins : Compared(l)'
      /\ \A t \in tokens' : Timely(t)'
  BY <1>2 DEF GateInv, Noted, Compared, Timely, Accounts, Times
<1>6. /\ sent'[r] = [user |-> token.user, scope |-> scope] /\ admitted'[r] = now
      /\ \A q \in Requests \ {r} : sent'[q] = sent[q] /\ admitted'[q] = admitted[q]
  BY <1>1, <1>2 DEF GateInv, GateTypeOK
<1>7. /\ now < token.expires
      /\ lastEntitled[token.user] # None
      /\ token.expires <= lastEntitled[token.user] + Expiry + MaxDelay
      /\ lastEntitled[token.user] \in Nat
  BY <1>1, <1>3 DEF GateInv, Timely, LetIn, Noted
<1>8. Cleared(r)'
  <2>1. now < lastEntitled[token.user] + Expiry + MaxDelay /\ now <= now + MaxDelay
    BY <1>3, <1>7, GateAssumption, ConstantsAssumption
  <2> QED BY <1>2, <1>3, <1>6, <1>7, <2>1 DEF Cleared
<1>9. ASSUME NEW q \in Requests, q # r PROVE Cleared(q)'
  BY <1>2, <1>6, <1>9 DEF GateInv, Cleared
<1>10. \A q \in Requests : outcome[q] # "new" => q # r
  BY <1>2, ConstantsAssumption, GateAssumption DEF GateInv, Keyed
<1>11. (\A q \in Requests : Keyed(q)') /\ EntitledNotLongAgo'
  BY <1>2, <1>6, <1>10 DEF GateInv, Keyed, EntitledNotLongAgo
<1> QED BY <1>4, <1>5, <1>8, <1>9, <1>11 DEF GateInv

\* A request reaches the limiter soon after its token was found valid.
LEMMA ReachLimiterStep ==
  ASSUME GateInv, Inv, NEW r \in Requests, ReachLimiter(r)
  PROVE  GateInv'
<1>1. /\ admitted[r] # None /\ Arrive(r) /\ key'[r] = <<sent[r].scope, sent[r].user>>
      /\ admitted' = [admitted EXCEPT ![r] = None]
      /\ UNCHANGED <<account, changes, logins, user, tokens, sent, lastEntitled>>
  BY DEF ReachLimiter, KeyOf
<1>2. /\ UNCHANGED now
      /\ \E k \in Keys : key' = [key EXCEPT ![r] = k]
      /\ stamp' = [stamp EXCEPT ![r] = now]
      /\ outcome' = [outcome EXCEPT ![r] = "waiting"]
  BY <1>1 DEF Arrive
<1>3. /\ sent[r] \in [user : Users, scope : Scopes] /\ sent[r].user \in Users
      /\ now <= admitted[r] + MaxDelay /\ admitted[r] \in Nat
      /\ lastEntitled[sent[r].user] # None /\ lastEntitled[sent[r].user] \in Nat
      /\ admitted[r] < lastEntitled[sent[r].user] + Expiry + MaxDelay
  BY <1>1 DEF GateInv, GateTypeOK, Cleared, Noted, Times
<1>4. GateTypeOK'
  BY <1>1, <1>2 DEF GateInv, GateTypeOK, Accounts, Times
<1>5. /\ \A u \in Users : Noted(u)'
      /\ \A l \in Logins : Compared(l)'
      /\ \A t \in tokens' : Timely(t)'
  BY <1>1, <1>2 DEF GateInv, Noted, Compared, Timely, Accounts, Times
<1>6. /\ stamp'[r] = now /\ admitted'[r] = None
      /\ \A q \in Requests \ {r} :
           /\ stamp'[q] = stamp[q] /\ outcome'[q] = outcome[q] /\ key'[q] = key[q]
           /\ admitted'[q] = admitted[q]
  BY <1>1, <1>2 DEF GateInv, GateTypeOK, Inv, TypeOK
<1>7. ASSUME NEW q \in Requests PROVE Cleared(q)'
  BY <1>1, <1>2, <1>6 DEF GateInv, Cleared
<1>8. ASSUME NEW q \in Requests PROVE Keyed(q)'
  BY <1>1, <1>3, <1>6 DEF GateInv, Keyed
<1>9. EntitledNotLongAgo'
  <2> SUFFICES ASSUME NEW q \in Requests, outcome'[q] # "new"
               PROVE  /\ lastEntitled[sent[q].user] # None
                      /\ stamp'[q] < lastEntitled[sent[q].user] + Expiry + 2 * MaxDelay
    BY <1>1 DEF EntitledNotLongAgo
  <2>1. CASE q # r
    BY <1>6, <2>1 DEF GateInv, EntitledNotLongAgo
  <2>2. CASE q = r
    BY <1>3, <1>6, <2>2, Clock, GateAssumption, ConstantsAssumption
  <2> QED BY <2>1, <2>2
<1> QED BY <1>4, <1>5, <1>7, <1>8, <1>9 DEF GateInv

\* The limiter decides on requests that were let in before.
LEMMA PassLimiterStep ==
  ASSUME GateInv, Inv, NEW r \in Requests, PassLimiter(r)
  PROVE  GateInv'
<1>1. /\ UNCHANGED <<now, key, stamp, account, changes, logins, user, tokens, sent, admitted,
                     lastEntitled>>
      /\ outcome[r] = "waiting"
      /\ \A q \in Requests \ {r} : outcome'[q] = outcome[q]
  BY DEF PassLimiter, Check, gateVars, Inv, TypeOK
<1>2. \A q \in Requests : outcome'[q] # "new" => outcome[q] # "new"
  BY <1>1
<1>3. GateTypeOK'
  BY <1>1 DEF GateInv, GateTypeOK, Accounts, Times
<1>4. /\ \A u \in Users : Noted(u)'
      /\ \A l \in Logins : Compared(l)'
      /\ \A t \in tokens' : Timely(t)'
      /\ \A q \in Requests : Cleared(q)'
  BY <1>1 DEF GateInv, Noted, Compared, Timely, Cleared, Accounts, Times
<1>5. (\A q \in Requests : Keyed(q)') /\ EntitledNotLongAgo'
  BY <1>1, <1>2 DEF GateInv, Keyed, EntitledNotLongAgo
<1> QED BY <1>3, <1>4, <1>5 DEF GateInv

\* Every step preserves the invariant.
LEMMA GateNextInv ==
  ASSUME GateInv, Inv, Inv', [GateNext]_allVars
  PROVE  GateInv'
<1>1. CASE UNCHANGED allVars
  BY <1>1 DEF allVars, gateVars, vars, GateInv, GateTypeOK, Noted, Compared, Timely, Cleared,
              Keyed, EntitledNotLongAgo, Accounts, Times
<1>2. ASSUME NEW r \in Requests, Authenticate(r) \/ ReachLimiter(r) \/ PassLimiter(r)
      PROVE  GateInv'
  BY <1>2, AuthenticateStep, ReachLimiterStep, PassLimiterStep
<1>4. ASSUME NEW l \in Logins, ReadAccount(l) \/ Login(l) PROVE GateInv'
  BY <1>4, ReadAccountStep, LoginStep
<1>5. CASE ChangeAccount
  <2>1. /\ UNCHANGED <<now, logins, user, tokens, sent, admitted, key, stamp, outcome>>
        /\ NoteEntitled
    BY <1>5 DEF ChangeAccount, vars
  <2>2. account' \in [Users -> AccountRoles \cup {None}] /\ changes' \in 0..MaxChanges
    BY <1>5, GateAssumption DEF ChangeAccount, GateInv, GateTypeOK
  <2>3. now <= now'
    BY <2>1, Clock
  <2>4. /\ \A l \in Logins : logins[l] = "comparing" => now' <= user[l].read + MaxDelay
        /\ \A r \in Requests : admitted[r] # None => now' <= admitted[r] + MaxDelay
    BY <2>1 DEF GateInv, Compared, Cleared
  <2> QED BY <2>1, <2>2, <2>3, <2>4, NotingStep
<1>6. CASE GateTick
  <2>1. /\ UNCHANGED <<account, changes, logins, user, tokens, sent, admitted, key, stamp,
                       outcome>>
        /\ now' = now + 1 /\ NoteEntitled
        /\ \A l \in Logins : logins[l] = "comparing" => now < user[l].read + MaxDelay
        /\ \A r \in Requests : admitted[r] # None => now < admitted[r] + MaxDelay
    BY <1>6 DEF GateTick, Tick
  <2>2. account' \in [Users -> AccountRoles \cup {None}] /\ changes' \in 0..MaxChanges
    BY <2>1 DEF GateInv, GateTypeOK
  <2>3. now <= now'
    BY <2>1, Clock
  <2>4. /\ \A l \in Logins : logins[l] = "comparing" => now' <= user[l].read + MaxDelay
        /\ \A r \in Requests : admitted[r] # None => now' <= admitted[r] + MaxDelay
    BY <2>1, Clock, ConstantsAssumption DEF GateInv, GateTypeOK, Compared, Accounts, Times
  <2> QED BY <2>1, <2>2, <2>3, <2>4, NotingStep
<1>7. CASE Resting
  BY <1>1, <1>7 DEF Resting
<1> QED
  BY <1>1, <1>2, <1>4, <1>5, <1>6, <1>7 DEF GateNext

LEMMA GateInductive == GateSpec => [](GateInv /\ Inv)
<1>1. GateInit => GateInv
  BY GateInitInv
<1>2. GateInv /\ Inv /\ Inv' /\ [GateNext]_allVars => GateInv'
  BY GateNextInv
<1>3. GateSpec => []Inv
  BY GateIsLimiter, Inductive, PTL
<1> QED BY <1>1, <1>2, <1>3, PTL DEF GateSpec

-----------------------------------------------------------------------------
(* The theorems.                                                           *)

\* Accounts, tokens and requests keep their types.
THEOREM GateTypeCorrect == GateSpec => []GateTypeOK
<1>1. GateInv => GateTypeOK
  BY DEF GateInv
<1> QED BY <1>1, GateInductive, PTL

\* Nobody is let in who could not run evaluations less than the life of a token ago, and
\* the waits of a login and of a request, though roles and accounts are looked at only by
\* Login, and there before the password (Login, RequireAuth).
THEOREM EntitlementIsRecent == GateSpec => []EntitledNotLongAgo
<1>1. GateInv => EntitledNotLongAgo
  BY DEF GateInv
<1> QED BY <1>1, GateInductive, PTL

\* A user is turned away on a route only if the limit is full of his own requests on the
\* same route: the key of the limiter names both (Middleware and its place in the routes).
THEOREM OnlyOwnCalls == GateSpec => []OnlyOwnCallsCount
<1>1. GateInv /\ Inv => OnlyOwnCallsCount
  <2> SUFFICES ASSUME GateInv, Inv, NEW r \in Requests, outcome[r] = "limited"
               PROVE  Cardinality({q \in Requests :
                        /\ outcome[q] = "allowed" /\ sent[q] = sent[r]
                        /\ at[q] <= at[r] /\ stamp[r] < at[q] + Minute}) >= limit
    BY DEF OnlyOwnCallsCount
  <2>1. Keyed(r) /\ sent[r] \in [user : Users, scope : Scopes]
        /\ key[r] = <<sent[r].scope, sent[r].user>>
    BY DEF GateInv, Keyed
  <2>2. ASSUME NEW q \in Requests, outcome[q] = "allowed"
        PROVE  key[q] = key[r] <=> sent[q] = sent[r]
    <3>1. sent[q] \in [user : Users, scope : Scopes] /\ key[q] = <<sent[q].scope, sent[q].user>>
      BY <2>2 DEF GateInv, Keyed
    <3> QED BY <2>1, <3>1
  <2>3. {q \in AllowedOf(key[r]) : at[q] <= at[r] /\ stamp[r] < at[q] + Minute}
          = {q \in Requests : /\ outcome[q] = "allowed" /\ sent[q] = sent[r]
                              /\ at[q] <= at[r] /\ stamp[r] < at[q] + Minute}
    BY <2>2 DEF AllowedOf
  <2> QED BY <2>3 DEF Inv, LimitedOnlyWhenFull
<1> QED BY <1>1, GateInductive, PTL
=============================================================================
