SPECIFICATION Spec
CONSTANTS
  Id <- MCId
  MaxExponent = 2
  WordSize = 16
INVARIANTS
  TypeOK
  PersistIsTimes
  EqualIsTimes
  DivideIsQuotient
  DeglexIsMonomialOrder
PROPERTIES
  Terminates
