SPECIFICATION Spec
CONSTANTS
  Worker = {w1, w2}
  MaxIndex = 4
  Layouts <- SmallLayouts
  PersistModes = {TRUE, FALSE}
  MayFail = TRUE
  SharedExist = FALSE
INVARIANTS ActiveBounded AwaitedIsComing
PROPERTIES RestoreEnds
