SPECIFICATION FairSpec
CONSTANTS
  NPROC = 4
  NSEM = 1
  QUANTUM = 2
  NSTART = 2
  StartPrio <- Equal
  Prio = {1, 2}
  Msg = {7}
  Delay = {1, 2}
  Count = {0}
  MaxCount = 0
  Workload <- SliceWorkload
INVARIANTS
  HighestPriorityRuns
PROPERTIES
  NoStarvation
  DelayEnds
