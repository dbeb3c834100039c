SPECIFICATION Spec
CONSTANTS
  INPUT_BUF_SIZE = 4
  Char = {a, bs, del}
  NUL = nul
  BS = bs
  DEL = del
INVARIANTS TypeOK NoEmptySlotInQueue
PROPERTY ImplementsQueue
