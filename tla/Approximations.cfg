SPECIFICATION FairSpec
CONSTANTS
  Number <- MCNumber
  Target <- MCTarget
  Precision <- MCPrecision
  FastPrecision = 4
INVARIANTS
  ArfIsAccurate
  RefineAssertions
  CmpIsSound
  NumbersOfAKindAreOrdered
  UndecidedAreClose
PROPERTIES
  ComparisonsEnd
