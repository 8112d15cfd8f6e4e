\* Three calls on a safeguard, from its registration or from the seeded row; or two and a
\* run of an evaluation that depends on it.
SPECIFICATION InputsSpec
CONSTANTS
  eve = eve  rio = rio  aud = aud  None = None
  Users <- MCUsers
  RoleOf <- MCRoleOf
  SeedReviewer = rio
  Intervals = {2, 4}
  Tolerance = 1
  Second = 2
  Traffic <- MCTraffic
  Requests = {r1, r2, r3}
  MaxTime = 4
  MaxFaults = 1
  MaxActive = 3
SYMMETRY RequestSymmetry
INVARIANTS
  ActiveHasEvidence
  CountedWasInForce
  InvalidationIsSeen
  ReasonsAreKept
PROPERTIES
  LifecycleIsGuarded
  ImplementsSafeguardLifecycle
