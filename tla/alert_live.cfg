\* No fault, fair: a new alert reaches its rules.
SPECIFICATION FairSpec
CONSTANTS
  k1 = k1
  k2 = k2
  Items = {k1}
  Types = {"hn", "web"}
  TypeOf <- MCTypeOfOne
  TopRank = 0
  Versions = {v1}
  Statuses = {"new", "dismissed"}
  Rules = {r1, r2}
  Slots = {h1, h2}
  StampsDiffer = TRUE
  Instants = {t1, t2}
  Faults = {}
  None = None
CHECK_DEADLOCK FALSE
INVARIANTS NoRuleForgotten
PROPERTIES NewIsRouted
