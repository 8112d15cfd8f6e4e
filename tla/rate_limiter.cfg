\* Four requests of a user on two routes, over two windows and the removal of the first,
\* on the tokens of two logins, while his account is changed and his tokens expire.
SPECIFICATION GateSpec
CONSTANTS
  Requests = {r1, r2, r3, r4}
  Logins = {l1, l2}
  Users = {u}
  Scopes = {run, replay}
  Keys <- MCKeys
  AccountRoles = {"process_engineer"}
  Expiry = 3
  MaxChanges = 1
  MaxActive = 2
  Limits = {1, 2}
  Capacity = 1
  Second = 2
  Minute = 3
  MaxDelay = 1
  MaxTime = 7
  None = None
SYMMETRY Symmetry
INVARIANTS
  AtMostTwoWindows
  RetryAfterIsHonest
  EntitledNotLongAgo
  OnlyOwnCallsCount
PROPERTY PruningIsHarmless
