SPECIFICATION Spec
CONSTANTS
  Worker = {w1, w2}
  MaxIndex = 4
  Layouts <- SmallLayouts
  PersistModes = {FALSE}
  MayFail = FALSE
  SharedExist = TRUE
PROPERTIES RestoreEnds
CHECK_DEADLOCK FALSE
