SPECIFICATION Spec
CONSTANTS
  Number <- FourthPower
  Target <- TwentyTwo
  Precision <- Four
  FastPrecision = 4
INVARIANTS
  RefinedIsFound
