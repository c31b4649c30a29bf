SPECIFICATION Spec
CONSTANTS
  Fragments <- MCFragments
  MaxFragments = 4
  Width <- MCWidth
  MaxInputLength = 5
  MaxReportIds = 2
  MaxLocalUsages = 3
  StackMax = 1
  Tip <- MCTip
  X <- MCX
  Y <- MCY
  WordBits = 8
  Reports <- MCReports
INVARIANTS
  TypeOK
  OffsetsBounded
  LayoutIsDeclared
  FieldsExtracted
