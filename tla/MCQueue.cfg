SPECIFICATION MCSpec
CONSTANTS
  LastPid = 4
  m1 = m1
  m2 = m2
  Prio <- MCPrio
  Msg <- MCMsg
  Dest <- OneServer
  Reader <- TheServer
  Pauser <- TheServer
  ChsBufSize = 1
  MaxTyped = 2
INVARIANTS TypeOK NoSleepOnMail NoLostWakeup QueueInOrder
PROPERTIES FirstComeFirstServed RpcSpec
