SPECIFICATION Spec
CONSTANTS
  a = a
  b = b
  c = c
  Nothing = Nothing
  Atom <- MCAtom
  Basis <- MCLinearBasis
  Coefficients <- MCCoefficients
  MaxId = 5
  MaxSaved = 1
PROPERTIES
  LoadRestoresElement
CHECK_DEADLOCK FALSE
