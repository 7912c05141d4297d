SPECIFICATION MCFairSpec
CONSTANTS
  Blank = Blank
  Generated = Generated
  Absent = Absent
  v1 = v1
  v2 = v2
  Calls = {c1, c2}
  NumRules = 2
  Verdicts <- FewVerdicts
  Values = {v1}
  Submissions <- OneSubmission
  CallersMutate = FALSE
PROPERTIES
  ImplementsAuditedGate
  CallEnds
