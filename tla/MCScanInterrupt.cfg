CONSTANTS
  u1 = u1
  u2 = u2
  Url = {u1, u2}
  Seeds <- MCSeeds
  Base <- MCBase
  NumProbes = 1
  NumChecks = 2
  Serial = {2}
  Generated <- MCGeneratedSmall
  MaxAuditorRunners = 1
  InitialDeadlines = {"scan"}
  MaxInterrupts = 1
  NoUrl = NoUrl
SPECIFICATION Spec
INVARIANTS
  FirstInterruptIsGraceful
CHECK_DEADLOCK FALSE
