CONSTANTS
  Page <- TwoPages
  Base <- TwoBase
  Wordlist <- NestedWords
  Extensions <- NestedExtensions
  Url <- MCUrl
  Absent <- DeepAbsent
  Amount = 1
  MaxTries = 2
  NoRequest = NoRequest
SPECIFICATION Spec
INVARIANTS
  ClientHoldsOwnedRequests
  FoundObjectsAreStored
  NoCandidateIsTriedTwice
  SearchIsComplete
CHECK_DEADLOCK FALSE
