CONSTANTS
  Request = {r1}
  ConnectionLimit = 1
  Hanging = {r1}
  NoRequest = NoRequest
SPECIFICATION FairSpec
PROPERTIES
  ExpiredRequestsEnd
CHECK_DEADLOCK FALSE
