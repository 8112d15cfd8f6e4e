\* Three clients edit and review one scenario from each of its possible first rows, and
\* are answered its timeline, while another scenario is edited.
SPECIFICATION TimelineSpec
CONSTANTS
  ada = ada  eve = eve  rio = rio  aud = aud  None = None
  cause = cause  severity = severity
  Users <- MCUsers
  RoleOf <- MCRoleOf
  Author = ada
  SeedReviewer = rio
  Fields = {cause, severity}
  Traffic <- MCTraffic
  Requests = {r1, r2, r3}
  MaxFaults = 1
  PageSize = 2
  MaxDisturbances = 1
SYMMETRY RequestSymmetry
INVARIANTS
  VersionNamesOneRow
  ReviewersAreIndependent
  ConflictMeansChange
  AnswerIsCurrent
  TimelineFollowsHistory
  TimelineIsComplete
PROPERTIES
  DecidesOnWhatItSaw
  ImplementsScenarioLifecycle
