SPECIFICATION Spec
CONSTANTS
  LastPid = 3
  m1 = m1
  m2 = m1
  Prio <- MCPrio
  Msg <- MCMsg
  Dest <- TwoClients
  Reader = {}
  Pauser = {}
  ChsBufSize = 1
  MaxTyped = 0
INVARIANT QueueHoldsSenders
