SPECIFICATION FairSpec
CONSTANTS
  LastPid = 3
  m1 = m1
  m2 = m1
  Prio <- MCPrio
  Msg <- MCMsg
  Dest <- ClientReader
  Reader <- ShReader
  Pauser <- ShReader
  ChsBufSize = 1
  MaxTyped = 2
PROPERTIES CallReturns RunnableRuns ReaderGetsLine
