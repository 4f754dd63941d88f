CONSTANTS
  FieldPrime = 67
  CmpBits = 3
  Thresholds <- EdgeThresholds
  Numbers <- AroundTheRange
  MaxSample = 5
  MaxLen = 4
  MaxMany = 41
SPECIFICATION Spec
INVARIANTS PredicateIsSound WalletAgreesWithCircuit StatisticsAreOfTheSample
CHECK_DEADLOCK FALSE
