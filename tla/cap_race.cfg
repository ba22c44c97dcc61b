CONSTANTS
  p1 = p1
  p2 = p2
  s1 = s1
  s2 = s2
  Requests = {r1, r2}
  Publishers = {p1}
  Slugs = {s1, s2}
  Fields = {}
  Seed <- Empty
  Seeded = Seeded
  Cap = 1
  Ops = {"create"}
  MaxInFlight = 2
SPECIFICATION Spec
INVARIANT CapHeld
