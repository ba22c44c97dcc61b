CONSTANTS
  p1 = p1
  p2 = p2
  s1 = s1
  s2 = s2
  Requests = {r1, r2}
  Publishers = {p1, p2}
  Slugs = {s1, s2}
  Fields = {"title", "tags"}
  Seed <- OneTaken
  Seeded = Seeded
  Cap = 2
  Ops = {"create", "publish", "update", "unlist", "official", "block"}
  MaxInFlight = 2
SPECIFICATION FairSpec
INVARIANT TypeOK
PROPERTY ImplementsLibrary
PROPERTY BlockStopsPublishing
PROPERTY EveryRequestEnds
