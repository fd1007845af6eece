SPECIFICATION Spec
CONSTANTS
  a = a
  b = b
  c = c
  Nothing = Nothing
  Atom <- MCAtom
  Basis <- MCBasis
  Coefficients <- MCCoefficients
  MaxId = 4
  MaxSaved = 2
INVARIANTS
  TypeOK
PROPERTIES
  GeneratorsRestored
  RestoredInSameProcess
  RestoredInNewProcess
CHECK_DEADLOCK FALSE
