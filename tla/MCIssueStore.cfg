CONSTANTS
  Type = {xss, sqli, path}
  Severity = {high, low}
  Detail = {d1, d2}
  MaxRequests = 2
  MaxIssuesPerUrl = 2
  MaxIssuesPerCheckPerUrl = 2
  MaxIssuesPerCheck = 3
SPECIFICATION Spec
INVARIANTS
  TypeOK
  CountersMatchIssues
  ReportedIssuesAreStored
  IssueLimitsHold
CHECK_DEADLOCK FALSE
