SPECIFICATION ProxySpec
CONSTANTS
  Nil = Nil
  PipeCap = 1
  Sessions <- MCSessions
INVARIANTS
  AnswersFollowRequests
  UnreadableOnlyAfterParseError
  OutputIsWhole
  LogAccountsForTheSession
PROPERTIES
  EveryRequestIsAnswered
  SessionEnds
CHECK_DEADLOCK FALSE
