SPECIFICATION Spec
CONSTANTS
  NoToken = NoToken
  Actors = {r1, r2, r3}
  Lifetime = 1
  MaxTime = 2
  MaxFaults = 1
SYMMETRY ActorSymmetry
INVARIANTS  RefreshLives NothingLeft
CHECK_DEADLOCK FALSE
