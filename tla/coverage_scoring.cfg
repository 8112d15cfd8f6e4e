\* Three safeguards, and two days.
SPECIFICATION Spec
CONSTANTS
  Scale = 10
  One = 2048
  Floats <- MCFloats
  Gap = 4
  Kinds <- MCKinds
  Scenarios <- MCScenarios
  Unspecified <- MCUnspecified
  None = None
  MaxRows = 3
  MaxTime = 2
INVARIANTS
  ScoreMatchesReference
  EachCountedOnce
  OrderIrrelevant
  PathsArePairs
  RoundingIsBounded
PROPERTY CoverageIsMonotone
