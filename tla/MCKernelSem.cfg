SPECIFICATION Spec
CONSTANTS
  NPROC = 4
  NSEM = 2
  QUANTUM = 1
  NSTART = 3
  StartPrio <- LastLower
  Prio = {}
  Msg = {}
  Delay = {}
  Count = {0, 1, 2}
  MaxCount = 2
  Workload <- SemaphoreWorkload
INVARIANTS
  TypeOK
  QueueInv
  SemInv
  DeferInv
  HighestPriorityRuns
PROPERTIES
  SemFifo
