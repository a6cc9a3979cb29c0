CONSTANTS
  Request = {r1, r2, r3}
  ConnectionLimit = 2
  Hanging = {}
  NoRequest = NoRequest
SPECIFICATION FairSpec
INVARIANTS
  TypeOK
  ConnectionLimitRespected
  NothingOutstandingIsForgotten
  HandlesOutliveTransfers
PROPERTIES
  DisabledClientStartsNothing
  ImplementsContract
  AcceptedRequestsEnd
  RunningRequestsFinish
CHECK_DEADLOCK FALSE
