SPECIFICATION MCSpec
CONSTANTS
  Blank = Blank
  Generated = Generated
  Absent = Absent
  v1 = v1
  v2 = v2
  Calls = {c1}
  Values = {v1, v2}
  Submissions <- MCSubmissions
  NumRules = 1
  Verdicts <- FewVerdicts
  CallersMutate = TRUE
INVARIANT SubjectFailureRecordedAsError
