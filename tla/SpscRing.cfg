SPECIFICATION Spec
CONSTANTS
  Capacity = 4
  Values = {a, b}
  NoValue = NoValue
  MaxPushes = 10
INVARIANTS
  CursorInv
  NoSlotRace
PROPERTY ImplementsFifo
