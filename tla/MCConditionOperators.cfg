SPECIFICATION Spec
CONSTANTS
  Paths <- MCPaths
  Operators <- MCOperators
  ExpectedValues <- MCExpectedValues
  Requests <- MCRequests
INVARIANTS
  OppositesDisagree
  MatchStaysInFamily
  ErrorsAreAboutShape
