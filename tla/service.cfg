\* Three requests share a pool of two connections.
SPECIFICATION FairSpec
CONSTANTS
  Requests = {r1, r2, r3}
  Kinds = {"ready", "create", "publish_version", "update", "issue_token", "poll"}
  MaxConnections = 2
  None = None
INVARIANT HoldersDoNotAsk
INVARIANT NothingIsLeaked
INVARIANT WaitsEnd
PROPERTY EveryRequestEnds
PROPERTY Drains
