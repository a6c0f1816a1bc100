SPECIFICATION Spec
CONSTANTS
  Size = 5
  Chars = {0, 32, 45, 48, 57, 120}
  Numbers <- MCNumbers
INVARIANTS
  CopiesExact
  ResultsExact
  NumeralsRoundTrip
  ParsesOwnString
