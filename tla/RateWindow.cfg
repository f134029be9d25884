SPECIFICATION Spec
CONSTANTS
  s1 = s1
  s2 = s2
  s3 = s3
  Slot <- Slots
  Idle = Idle
  Limit = 2
  Window = 5
  Latency = 2
  Horizon = 11
SYMMETRY SlotSymmetry
INVARIANTS TypeOK WindowBound
CHECK_DEADLOCK FALSE
