\* Three calls on the register of nodes, with one fault.
SPECIFICATION Spec
CONSTANTS
  eve = eve  aud = aud  r1 = r1  None = None  Seed = Seed
  Users <- MCUsers
  RoleOf <- MCRoleOf
  Codes = {"R-101", "R-102"}
  SeedCode = "R-101"
  Traffic <- MCTraffic
  Requests = {r1, r2, r3}
  MaxFaults = 1
INVARIANTS
  CodeNamesOneNode
  DeactivatedOnce
  DeactivationHolds
PROPERTY ImplementsNodeLifecycle
