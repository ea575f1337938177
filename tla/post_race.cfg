\* Two requests and a worker race over one post; every fault.
SPECIFICATION Spec
CONSTANTS
  bluesky = bluesky
  reddit = reddit
  Posts = {p1}
  Platforms = {bluesky, reddit}
  Lists <- MCLists
  Http = {h1, h2}
  Workers = {w1}
  Jobs = {j1}
  MaxAttempts = 2
  MaxTime = 1
  Faults = {"crash", "db", "lost"}
  None = None
CHECK_DEADLOCK FALSE
SYMMETRY MCSymmetry
INVARIANTS TypeOK NothingSentUncommitted JobSendsOnce RowsAreTrue
PROPERTIES CommittedStays PublishedWasSent ImplementsLifecycle
