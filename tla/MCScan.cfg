CONSTANTS
  u1 = u1
  u2 = u2
  Url = {u1, u2}
  Seeds <- MCSeeds
  Base <- MCBase
  NumProbes = 1
  NumChecks = 3
  Serial = {2}
  Generated <- MCGenerated
  MaxAuditorRunners = 1
  InitialDeadlines = {"never", "scan"}
  MaxInterrupts = 2
  NoUrl = NoUrl
SPECIFICATION FairSpec
INVARIANTS
  NoUseAfterFree
  ResponsesReachTheirCheck
  RunnersWaitForResponses
  ScanIsComplete
PROPERTIES
  Termination
  Completion
CHECK_DEADLOCK FALSE
