CONSTANTS
  Radix = 8
  FieldC = 3
  Operands <- MCOperands
SPECIFICATION Spec
INVARIANT
  ProductExact
