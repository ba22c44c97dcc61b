CONSTANTS
  Slugs = {a,b,c}
  Writers = {w1, w2}
  Null = Null
  Params <- Queries
  DefaultPage = 1
  MaxPage = 2
  MaxTime = 2
  MaxVersion = 3
SPECIFICATION Spec
SYMMETRY Alike
CHECK_DEADLOCK FALSE
INVARIANT TypeOK
INVARIANT WalkMissesNothingFirm
INVARIANT WalkRepeatsNothingUnpushed
INVARIANT LaterIsNewer
 
PROPERTY FirstPageIsEarned
