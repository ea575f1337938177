\* Two clients, three platforms, two replies, one fault.
SPECIFICATION FairSpec
CONSTANTS
  k1 = k1
  k2 = k2
  Platforms = {"bluesky", "hn", "reddit"}
  Adapters <- MCAdapters
  Clients = {k1, k2}
  Given <- MCGiven
  MaxLapses = 1
  None = None
  Results = {"r1", "r2", "r3", "r4"}
  PlatformOf <- MCPlatformOf
  Nameless = {"r4"}
  Watched = {"r4"}
  Readers = {"bluesky", "hn", "reddit"}
  Batch = 2
  MaxReplies = 2
CHECK_DEADLOCK FALSE
INVARIANTS TypeOK ReportedIsStored
PROPERTIES EveryReplyAlerted
