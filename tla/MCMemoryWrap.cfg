SPECIFICATION Spec
CONSTANTS
  MINHEAP = 8
  MAXHEAP = 56
  WORD = 128
  Requests <- HugeRequests
INVARIANTS Disjoint
