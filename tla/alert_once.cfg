\* Two requests and a poller deliver two items; every fault; one rule.
SPECIFICATION Spec
CONSTANTS
  k1 = k1
  k2 = k2
  Items = {k1, k2}
  Types = {"hn", "web"}
  TypeOf <- MCTypeOfTwo
  TopRank = 1
  Versions = {v1, v2}
  Statuses = {"new", "dismissed"}
  Rules = {r1}
  Slots = {h1, h2}
  StampsDiffer = TRUE
  Instants = {t1, t2, t3}
  Faults = {"crash", "db", "lost"}
  None = None
CHECK_DEADLOCK FALSE
SYMMETRY MCSymmetry
INVARIANTS TypeOK NotifiedOnce CalledAsMeant
PROPERTIES TriageSurvives
