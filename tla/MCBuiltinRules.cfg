SPECIFICATION MCSpec
CONSTANTS
  Calls = {c1, c2}
  NumRules = 2
  Verdicts <- MCVerdicts
  write = write
  read = read
  operator = operator
  admin = admin
  hvac = hvac
  device = device
  zone = zone
  NoResource = none
  Actions <- MCActions
  Roles <- MCRoles
  Types <- MCTypes
  Payloads <- MCPayloads
  Resources <- MCResources
  NoSubject = nobody
  Policies <- AllPolicies
INVARIANTS
  GrantsObeyEveryTable
  RolesOnlyHelp
