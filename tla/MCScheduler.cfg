SPECIFICATION FairSpec
CONSTANTS
  PAGE_SIZE = 4096
  KernelEnd = 114884
  Bootstrap = 114688
  BootStack = 589824
  Depth = {1, 2}
  MEM_LIMIT = 143360
INVARIANTS TypeOK RunQueueIsLinkedList RunningTaskIsQueued StackPointersKept TaskMemoryPrivate
PROPERTIES ResumesWhereItYielded ImplementsRoundRobin EveryQueuedTaskRuns
CHECK_DEADLOCK FALSE
