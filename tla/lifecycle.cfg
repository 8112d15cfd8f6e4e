\* Three requests under two keys, one of which may be cut short, are fairly served.
SPECIFICATION FairSpec
CONSTANTS
  ada = ada  eve = eve  rio = rio  s1 = s1  s2 = s2  k1 = k1  k2 = k2  r1 = r1
  ShortKey = ShortKey  NoScenario = NoScenario  None = None
  Users <- MCUsers
  RoleOf <- MCRoleOf
  Author <- MCAuthor
  Score <- MCScore
  Unevaluable <- MCUnevaluable
  Requests = {r1, r2, r3}
  Keys = {k1, k2}
  Scenarios = {s1, s2}
  Traffic <- LifecycleTraffic
  MaxEdits = 0
  MaxFaults = 1
PROPERTIES
  ImplementsLifecycle
  RequestsEnd
  SettlesWithoutFaults
