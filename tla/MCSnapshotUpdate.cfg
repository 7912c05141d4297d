SPECIFICATION MCSpec
CONSTANTS
  v0 = v0
  v1 = v1
  v2 = v2
  old = old
  same = same
  new = new
  gone = gone
  sha = sha
  Absent = absent
  Torn = torn
  Approved <- MCApproved
  Excluded <- MCExcluded
  Published <- MCPublished
  Sources <- MCSources
  Requests <- MCRequests
  Destinations <- MCDestinations
  MaxRuns = 3
  MaxFaults = 2
  MaxSwitches = 2
INVARIANTS
  RefusalTouchesNothing
  SuccessIsComplete
  VerifiedTreeIsOneRelease
  SnapshotInv

  
