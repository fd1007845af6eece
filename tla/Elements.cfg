SPECIFICATION Spec
CONSTANTS
  Atom <- MCAtom
  Basis <- MCBasis
  Ratio <- MCRatio
  MaxDegree = 2
  MaxRank = 3
  OperandDegree = 1
  OperandRank = 2
  OperandCoefficient = 2
  MaxCoefficient = 1
  QuotientBound = 2
INVARIANTS
  TypeOK
  EqualityIsExact
  NumbersAreRecognised
  FloorIsExact
  DivisionInvariant
PROPERTIES
  ImplementsPolynomials
  LeadingGeneratorDecreases
