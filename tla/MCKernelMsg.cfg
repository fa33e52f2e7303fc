SPECIFICATION Spec
CONSTANTS
  NPROC = 4
  NSEM = 1
  QUANTUM = 1
  NSTART = 2
  StartPrio <- LastLower
  Prio = {1}
  Msg = {3}
  Delay = {}
  Count = {0}
  MaxCount = 0
  Workload <- MessageWorkload
INVARIANTS
  QueueInv
  ReceiveHasMessage
PROPERTIES
  MessageStays
