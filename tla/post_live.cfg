\* A request, two workers and two jobs of one post; no fault.
SPECIFICATION FairSpec
CONSTANTS
  bluesky = bluesky
  reddit = reddit
  Posts = {p1}
  Platforms = {bluesky, reddit}
  Lists <- MCListsTwice
  Http = {h1}
  Workers = {w1, w2}
  Jobs = {j1, j2}
  MaxAttempts = 1
  MaxTime = 2
  Faults = {}
  None = None
CHECK_DEADLOCK FALSE
INVARIANTS ScheduledHasJob OutcomesRecorded
PROPERTIES ScheduledIsTaken PublishingEnds
