CONSTANTS
  FieldRadix = 16
  FieldC = 3
  CurveD = 6
  SqrtM1 = 5
  Requests <- MCRequests
  Later <- MCLater
  ExponentModulus = 32749
SPECIFICATION Spec
INVARIANTS
  PointTypeOK
  PointExact
  ChainExponent
PROPERTIES
  EveryOperationEnds
