SPECIFICATION FairSpec
CONSTANTS
  Atom <- MCAtom
  Drawn <- MCDrawn
  Operand <- MCOperand
  Ratio <- MCRatio
  FastPrecision = 3
  DoubleBits = 3
  RadiusBits = 6
  MaxAnswers = 1
INVARIANTS
  ArbIsClose
  AnswersAreRight
PROPERTIES
  CallsEnd
CHECK_DEADLOCK FALSE
