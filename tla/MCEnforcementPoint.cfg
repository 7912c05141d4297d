SPECIFICATION MCSpec
CONSTANTS
  Blank = Blank
  Generated = Generated
  Absent = Absent
  v1 = v1
  v2 = v2
  Calls = {c1}
  NumRules = 2
  Verdicts <- SomeVerdicts
  Values = {v1, v2}
  Submissions <- MCSubmissions
  CallersMutate = TRUE
INVARIANTS
  TypeOK
  FailClosed
  ResponseIsExplained
  RecordTellsTheCall
  RecordNamesWhatWasAsked
  AuditAccounting
  AcceptedRequestsAreAnswered
  BoundaryInv
PROPERTIES
  DecisionOutlivesAudit
