SPECIFICATION Spec
CONSTANTS
  NPROC = 4
  NSEM = 1
  QUANTUM = 2
  NSTART = 3
  StartPrio <- Equal
  Prio = {1, 2, 3}
  Msg = {}
  Delay = {}
  Count = {0}
  MaxCount = 0
  Workload <- PriorityWorkload
PROPERTIES
  DispatchesHighest
