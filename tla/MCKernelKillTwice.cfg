SPECIFICATION Spec
CONSTANTS
  NPROC = 4
  NSEM = 1
  QUANTUM = 2
  NSTART = 2
  StartPrio <- Equal
  Prio = {2}
  Msg = {7}
  Delay = {}
  Count = {0}
  MaxCount = 0
  Workload <- MessageWorkload
INVARIANTS
  HaltsAtEnd
