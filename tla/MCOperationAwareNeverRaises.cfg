SPECIFICATION MCSpec
CONSTANTS
  Calls = {c1}
  Requests <- MCRequests
  Names = {n1}
  Blank = blank
  Documents <- MCDocuments
  RuleLists = {}
  OwnerEdits = FALSE
INVARIANT NeverRaises
