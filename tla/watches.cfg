\* Two requests at a time for a source with up to three addresses, and every fault.
SPECIFICATION Spec
CONSTANTS
  Sources = {s1}
  Requests = {r1, r2}
  URLs = {a, b}
  UrlLists <- MCLists
  MaxWatch = 3
  Faults = {"call", "statement", "crash", "project"}
  None = None
CONSTRAINT MCNotTorn
SYMMETRY MCSymmetry
CHECK_DEADLOCK FALSE
INVARIANTS TypeOK ListedExist WatchesMatch
