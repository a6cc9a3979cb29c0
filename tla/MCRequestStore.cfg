CONSTANTS
  Request <- MCRequest
  Whitelist <- MCIncludeAll
  Blacklist <- MCBlacklist
  ChildLimit = 2
  RequestLimit = 2
  MaxRequests = 4
  ReportTypes <- MCReportTypes
  Openable = {"TEXT", "JSON"}
  Unconvertible <- MCUnconvertible
SPECIFICATION ReportSpec
INVARIANTS
  ReportsAreComplete
  PivotLimitsHold
  ProbedOnceInOrder
  NoEqualRequests
  OfferedRequestsAreStored
CHECK_DEADLOCK FALSE
