CONSTANTS
  Sites <- MCSites
  Seed <- MCSeed
  KnownMime = {"text/html", "text/plain", "image/png"}
  SniffedMime = {"text/plain"}
  HtmlMime = {"text/html"}
  BinaryMime = {"image/png"}
  PassiveTests <- MCPassiveTests
  MaxRequests = 7
  MaxPages = 2
  ScriptLength = 3
SPECIFICATION Spec
INVARIANTS
  ScriptsAreUnderstood
  LoginFormsAreJudgedAlone
  EveryLinkIsStored
  IssuesBelongToPages
  AuditedPagesExist
CHECK_DEADLOCK FALSE
