SPECIFICATION Spec
CONSTANTS
  Number <- SomeIntegers
  Target <- TwentyTwo
  Precision <- Three
  FastPrecision = 4
INVARIANTS
  ComparisonsAreRight
