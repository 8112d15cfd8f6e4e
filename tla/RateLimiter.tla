----------------------------- MODULE RateLimiter -----------------------------
(***************************************************************************)
(* The rate limiter before the handlers of login, run and replay           *)
(* (RateLimiter of backend/internal/middleware/auth.go): a window per      *)
(* scope and caller, in memory, under a mutex.                             *)
(*                                                                         *)
(* A request reads the clock, waits for the mutex, and is let in or turned *)
(* away in one critical section.  Requests may get the mutex in another    *)
(* order than they read the clock, at most MaxDelay later.                 *)
(*                                                                         *)
(* The model follows one life of the server: a restart forgets all windows *)
(* and all requests.                                                       *)
(***************************************************************************)
EXTENDS Naturals, FiniteSets

CONSTANTS
  Requests,   \* the requests of one life of the server
  Keys,       \* scope and caller: "login:" and an address, "coverage-run:" and a user, ...
  Limits,     \* values the limit may be configured to
  Capacity,   \* windows kept before old ones are removed (10000 in the code)
  Second,     \* clock ticks in a second
  Minute,     \* clock ticks in a window
  MaxDelay,   \* bound: ticks between the reading of the clock and the mutex
  MaxTime,    \* bound: the last tick
  None

ASSUME ConstantsAssumption ==
  /\ Limits \subseteq Nat \ {0} /\ Capacity \in Nat
  /\ Second \in Nat \ {0} /\ Minute \in Nat \ {0}
  /\ MaxDelay \in Nat /\ MaxDelay < Minute
  /\ MaxTime \in Nat
  /\ IsFiniteSet(Requests)
  /\ None \notin Nat /\ None \notin Keys
  /\ None \notin [start : Nat, count : Nat]

VARIABLES
  limit,    \* requests a window lets in, from the configuration
  windows,  \* windows[k]: the window of key k, or None
  now,      \* the clock
  key,      \* key[r]: the key of request r, None before it arrives
  stamp,    \* stamp[r]: the time r has read, `now` in the code
  outcome,  \* outcome[r]: what became of r
  at,       \* at[r]: when r had the mutex (history)
  advice    \* advice[r]: the Retry-After header of r, in seconds

vars == <<limit, windows, now, key, stamp, outcome, at, advice>>

Times == 0..MaxTime

Windows == [start : Times, count : Nat]

TypeOK ==
  /\ limit \in Limits
  /\ windows \in [Keys -> Windows \cup {None}]
  /\ now \in Times
  /\ key \in [Requests -> Keys \cup {None}]
  /\ stamp \in [Requests -> Times \cup {None}]
  /\ outcome \in [Requests -> {"new", "waiting", "allowed", "limited"}]
  /\ at \in [Requests -> Times \cup {None}]
  /\ advice \in [Requests -> Nat]

Init ==
  /\ limit \in Limits
  /\ windows = [k \in Keys |-> None]
  /\ now = 0
  /\ key = [r \in Requests |-> None]
  /\ stamp = [r \in Requests |-> None]
  /\ outcome = [r \in Requests |-> "new"]
  /\ at = [r \in Requests |-> None]
  /\ advice = [r \in Requests |-> 0]

-----------------------------------------------------------------------------
Arrive(r) ==
  /\ outcome[r] = "new"
  /\ \E k \in Keys : key' = [key EXCEPT ![r] = k]
  /\ stamp' = [stamp EXCEPT ![r] = now]
  /\ outcome' = [outcome EXCEPT ![r] = "waiting"]
  /\ UNCHANGED <<limit, windows, now, at, advice>>

\* t - start, for a clock reading t that may be older than the start.
Elapsed(t, start) == IF t < start THEN 0 ELSE t - start

\* Whether a request that read t opens a new window.
Over(window, t) == window = None \/ Elapsed(t, window.start) >= Minute

\* The window of its key once r is counted.
Counted(r) ==
  LET window == windows[key[r]] IN
  IF Over(window, stamp[r]) THEN [start |-> stamp[r], count |-> 1]
  ELSE [start |-> window.start, count |-> window.count + 1]

\* Mutant: windows are removed too early.
OutdatedEarly(window, t) == window # None /\ Elapsed(t, window.start) > Second

Outdated(window, t) == window # None /\ Elapsed(t, window.start) > 2 * Minute

\* When there are too many windows the outdated ones are removed.
Pruned(ws, t) ==
  IF Cardinality({k \in Keys : ws[k] # None}) > Capacity
  THEN [k \in Keys |-> IF Outdated(ws[k], t) THEN None ELSE ws[k]]
  ELSE ws

\* Mutant: the elapsed time is reported, not the remaining one.
RetryAfterElapsed(start, t) == Elapsed(t, start) \div Second

\* What is left of the window in whole seconds, rounded down.
RetryAfter(start, t) == (start + Minute - t) \div Second

\* Mutant: the request over the limit passes, too.
AllowedOneMore(window) == window.count <= limit + 1

Allowed(window) == window.count <= limit

Check(r) ==
  LET window == Counted(r) IN
  /\ outcome[r] = "waiting"
  /\ windows' = Pruned([windows EXCEPT ![key[r]] = window], stamp[r])
  /\ at' = [at EXCEPT ![r] = now]
  /\ \/ /\ Allowed(window)
        /\ outcome' = [outcome EXCEPT ![r] = "allowed"]
        /\ UNCHANGED advice
     \/ /\ ~Allowed(window)
        /\ outcome' = [outcome EXCEPT ![r] = "limited"]
        /\ advice' = [advice EXCEPT ![r] = RetryAfter(window.start, stamp[r])]
  /\ UNCHANGED <<limit, now, key, stamp>>

Tick ==
  /\ now < MaxTime
  /\ \A r \in Requests : outcome[r] = "waiting" => now < stamp[r] + MaxDelay
  /\ now' = now + 1
  /\ UNCHANGED <<limit, windows, key, stamp, outcome, at, advice>>

\* Every request was handled: the server waits.
Quiescent ==
  /\ now = MaxTime
  /\ \A r \in Requests : outcome[r] \in {"allowed", "limited"}
  /\ UNCHANGED vars

Next == (\E r \in Requests : Arrive(r) \/ Check(r)) \/ Tick \/ Quiescent

Spec == Init /\ [][Next]_vars

-----------------------------------------------------------------------------
(* Safety.                                                                 *)

AllowedOf(k) == {r \in Requests : key[r] = k /\ outcome[r] = "allowed"}

\* No caller passes twice the limit within a minute, less the time requests may wait,
\* wherever the minute begins: windows of one key start a minute apart although requests
\* overtake each other and old windows are removed, so of two windows that meet in that
\* time the request that opened the first came before (Middleware).
AtMostTwoWindows ==
  \A k \in Keys, t \in Times :
    Cardinality({r \in AllowedOf(k) : at[r] >= t /\ at[r] + MaxDelay < t + Minute})
      < 2 * limit

\* A request is turned away only if as many requests of its key as the limit says were
\* let in less than a minute before it came.
LimitedOnlyWhenFull ==
  \A r \in Requests : outcome[r] = "limited" =>
    Cardinality({q \in AllowedOf(key[r]) : at[q] <= at[r] /\ stamp[r] < at[q] + Minute})
      >= limit

\* A caller that is turned away, waits a second longer than Retry-After says and comes
\* again is turned away again only if others have filled the limit anew since.
RetryAfterIsHonest ==
  \A r, q \in Requests :
    /\ outcome[r] = "limited" /\ outcome[q] = "limited" /\ key[q] = key[r]
    /\ stamp[q] >= at[r] + (advice[r] + 1) * Second
    => Cardinality({p \in AllowedOf(key[r]) : at[p] >= at[r] /\ at[p] > stamp[r]}) >= limit

\* Removing windows changes no decision: a window that is removed is one that every
\* request which waits or is still to come would replace.
PruningIsHarmless ==
  [][\A k \in Keys : windows[k] # None /\ windows'[k] = None =>
       /\ Over(windows[k], now')
       /\ \A r \in Requests : outcome'[r] = "waiting" => Over(windows[k], stamp'[r])]_vars
=============================================================================
