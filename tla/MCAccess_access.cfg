SPECIFICATION Spec
CONSTANTS
  alice = alice
  bob = bob
  q1 = q1
  q2 = q2
  b1 = b1
  b2 = b2
  NoBundle = NoBundle
  Admins = {alice, bob}
  Requests = {q1, q2}
  AccessRequests = {q1, q2}
  Bundles = {b1, b2}
  Named <- MCNamed
  Initial = {b1}
SYMMETRY AdminSymmetry
INVARIANTS AccessInv KeyConfined
PROPERTIES LoneSaveIsOnlyDefault
CHECK_DEADLOCK FALSE
