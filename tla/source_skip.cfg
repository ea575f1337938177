\* One source whose mode changes; crashes, failing polls and watermark writes.
SPECIFICATION Spec
CONSTANTS
  Sources = {s1}
  Modes = {m1, m2}
  Pollable <- MCAll
  Slow = {s1}
  Unwanted = {}
  Limit = 1
  Cap = 2
  MaxItem = 2
  Faults = {"crash", "poll", "write"}
  None = None
CHECK_DEADLOCK FALSE
INVARIANTS TypeOK NothingSkipped
PROPERTIES WatermarkAdvances
