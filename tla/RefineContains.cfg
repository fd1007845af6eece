SPECIFICATION Spec
CONSTANTS
  Number <- OneThird
  Target <- TwentyTwo
  Precision <- Three
  FastPrecision = 4
INVARIANTS
  RefineContains
