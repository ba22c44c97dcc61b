CONSTANTS
  c1 = c1
  c2 = c2
  a1 = a1
  a2 = a2
  proxy = proxy
  Callers = {c1, c2}
  Addresses = {a1, a2, proxy}
  Home <- Homes
  Headers <- Arriving
  Null = Null
  Unknown = Unknown
  Flows = {f1, f2, f3, f4}
  Limit = 2
  Factor = 2
  Window = 2
  Lifetime = 2
  MaxTracked = 3
  MaxTime = 4
  MaxRestarts = 1
SPECIFICATION Spec
SYMMETRY AnyFlow
CHECK_DEADLOCK FALSE
INVARIANT PollsFitTheFlows
