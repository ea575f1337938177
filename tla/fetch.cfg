\* Every kind of monitor; two lists, of which one may be unavailable.
SPECIFICATION Spec
CONSTANTS
  Kinds <- MCAll
  NumLists = 2
  MaxItem <- MCItems
  MaxBad = 1
  Unwanted = {2}
  Cap = 2
  Total = 2
  Faults = {"list", "item"}
  None = None
INVARIANTS TypeOK OnlyNew
PROPERTIES NothingPassed ReturnedOnce
