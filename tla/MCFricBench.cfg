SPECIFICATION FairSpec
CONSTANTS
  Ports = {1, 2, 3}
  SlavePort = 1
  Requests <- MCRequests
  AnswerData <- MCAnswerData
  Leftovers <- MCLeftovers
  NumTransactions = 3
  DrainCycles = 200
  MaxDelay = 2
INVARIANTS
  TypeOK
  QuietPorts
  AckAwaited
  CheckerAgrees
  DrainedAtEnd
PROPERTIES
  ReadyBeforeReply
  RefinesService
  TestEnds
