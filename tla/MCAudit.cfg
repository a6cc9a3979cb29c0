CONSTANTS
  Scenarios <- MCScenarios
  Symbol <- MCSymbol
  Answers <- MCAnswers
  Measurements = 2
  Threshold = 3
  PathLength = 3
  QueryLength = 4
SPECIFICATION Spec
INVARIANTS
  IssuesFollowTheRules
  AuditsAreComplete
  
  UrlsAreStable
CHECK_DEADLOCK FALSE
