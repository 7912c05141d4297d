SPECIFICATION MCFairSpec
CONSTANTS
  Calls = {c1, c2}
  NumRules = 3
  Verdicts <- MCVerdicts
INVARIANTS
  GrantIsUnanimous
  OrderCannotGrant
  TraceIsTheWalk
  CreditIsFirst
  LoopInv
PROPERTIES
  ImplementsDenyOverrides
  EvaluationEnds
