\* Two sources, one of them slow, and rounds that look at one.
SPECIFICATION FairSpec
CONSTANTS
  Sources = {s1, s2}
  Modes = {m1}
  Pollable <- MCAll
  Slow = {s2}
  Unwanted = {}
  Limit = 1
  Cap = 2
  MaxItem = 2
  Faults = {}
  None = None
CHECK_DEADLOCK FALSE
INVARIANTS NoFlood
PROPERTIES EveryItemArrives
