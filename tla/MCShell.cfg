\* The user may stop typing.
CONSTANTS
  MAXARGS = 3
  NPROC = 6
  FirstLines <- FirstLinesVal
  LaterLines <- LaterLinesVal
  MaxLines = 2
SPECIFICATION FairSpec
INVARIANTS ParserExact ExecWired PromptWaits
PROPERTY PromptReturns
CHECK_DEADLOCK FALSE
