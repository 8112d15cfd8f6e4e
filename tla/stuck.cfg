\* One fault leaves an evaluation queued or running for good.
SPECIFICATION FairSpec
CONSTANTS
  ada = ada  eve = eve  rio = rio  s1 = s1  s2 = s2  k1 = k1  k2 = k2  r1 = r1
  ShortKey = ShortKey  NoScenario = NoScenario  None = None
  Users <- MCUsers
  RoleOf <- MCRoleOf
  Author <- MCAuthor
  Score <- MCScore
  Unevaluable <- MCUnevaluable
  Requests = {r1, r2}
  Keys = {k1}
  Scenarios = {s1}
  Traffic <- MCTraffic
  MaxEdits = 0
  MaxFaults = 1
PROPERTIES
  EvaluationsSettle
