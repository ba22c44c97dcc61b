CONSTANTS
  Slugs = {s1}
  Installations = {i1, i2}
  Calls = {1, 2}
  Horizon = 2
  MaxVersion = 2
SPECIFICATION FairSpec
INVARIANT TypeOK
INVARIANT HonestForgets
PROPERTY RemovedStopsCounting
PROPERTY KeptStaysCounted
