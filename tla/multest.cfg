SPECIFICATION MCSpec
CONSTANTS
  HalfBits = 2
  GuardBits = 2
  Words = {0, 11, 15}
  Digits = {0, 15}
  MaxOthers = 2
  MaxCalls = 3
  Half = 3
  Gap = 2
INVARIANTS MultipliesAsRiscV ColumnsExact ReturnsProduct ParametersConsistent PrintsDecimal ReportsTruly
PROPERTIES SubtractsTwoWords ImplementsField
CHECK_DEADLOCK FALSE
