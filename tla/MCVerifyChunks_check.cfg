SPECIFICATION Spec
CONSTANTS
  Verifier = {v1, v2}
  Worker = {w1, w2}
  Chunk = {c1, c2}
  PersistModes = {TRUE, FALSE}
  MayFail = TRUE
INVARIANT SuccessIsTrue
PROPERTY CheckEnds
