SPECIFICATION Spec
CONSTANTS
  SeedModulus = 2
  FirstSeed = 1
  RationalValue <- MCRationals
  Initial = {i}
  FirstId = 1
  MaxId = 4
  MaxExponent = 2
  KeepLimit = 1
INVARIANTS
  TypeOK
  CacheExact
  UniqueRepresentation
  DivisionUndoesMultiplication
PROPERTIES
  ImplementsUniqueReals
  LoadRestoresValue
