SPECIFICATION MCSpec
CONSTANTS
  Calls = {c1, c2}
  Requests <- OneRequest
  Names = {n1}
  Blank = blank
  Documents <- EditedDocuments
  RuleLists <- EditedRuleLists
  OwnerEdits = TRUE
INVARIANTS
  AllowIsEarned
  OnlyBlankTraceIdRaises
  EngineRaisesForACause
  AuthoringOrderIrrelevant
SYMMETRY CallSymmetry
