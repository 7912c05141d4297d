SPECIFICATION MCFairSpec
CONSTANTS
  Calls = {c1}
  Requests <- MCRequests
  Names = {n1}
  Blank = blank
  Documents <- MCDocuments
  RuleLists = {}
  OwnerEdits = FALSE
INVARIANTS
  TypeOK
  OutcomeIsMeant
  EvidenceIsHonest
  SilenceNeverMatches
  ArtifactsAgree
  InternalErrorHasACause
PROPERTIES
  ImplementsDenyOverrides
  CallEnds
