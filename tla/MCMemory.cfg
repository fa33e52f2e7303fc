SPECIFICATION Spec
CONSTANTS
  MINHEAP = 8
  MAXHEAP = 56
  WORD = 128
  Requests <- SmallRequests
INVARIANTS TypeOK ListOrdered Disjoint Conserved FreeAccepted DoubleFreeRefused
PROPERTY ImplementsHeap
