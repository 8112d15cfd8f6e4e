\* An update that read an expired safeguard races with its verification.
SPECIFICATION Spec
CONSTANTS
  eve = eve  rio = rio  aud = aud  None = None
  Users <- MCUsers
  RoleOf <- MCRoleOf
  SeedReviewer = rio
  Intervals = {1}
  Traffic <- MCTraffic
  Requests = {r1, r2}
  Tolerance = 1
  MaxTime = 2
  MaxFaults = 0
SYMMETRY RequestSymmetry
PROPERTY ExpiredOnlyAfterInterval
