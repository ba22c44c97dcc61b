CONSTANTS
  p1 = p1
  p2 = p2
  s1 = s1
  s2 = s2
  Requests = {r1, r2, r3}
  Publishers = {p1, p2}
  Slugs = {s1, s2}
  Fields = {}
  Seed <- OneTaken
  Seeded = Seeded
  Cap = 2
  Ops = {"create", "publish", "unlist", "withdraw", "fetch"}
  MaxInFlight = 3
SPECIFICATION Spec
SYMMETRY AnyRequest
INVARIANT NoGaps
INVARIANT AnsweredIsServed
INVARIANT RefusedLeavesNothing
INVARIANT OwnerOnly
INVARIANT ConflictMeansContention
INVARIANT FetchFindsPublished
INVARIANT WaitsEnd
