SPECIFICATION Spec
CONSTANTS
  NPROC = 4
  NSEM = 1
  QUANTUM = 2
  NSTART = 3
  StartPrio <- Equal
  Prio = {}
  Msg = {7}
  Delay = {0, 1}
  Count = {0}
  MaxCount = 0
  Workload <- TimerWorkload
INVARIANTS
  NonePastDue
