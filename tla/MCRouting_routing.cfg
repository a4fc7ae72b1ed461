SPECIFICATION RoutingSpec
CONSTANTS
  r1 = r1
  r2 = r2
  k1 = k1
  k2 = k2
  a = a
  b = b
  c = c
  x1 = x1
  fallback = fallback
  NoKey = NoKey
  GroupName = GroupName
  Requests = {r1, r2}
  Admins = {m1, m2}
  Names = {a, b, c}
  Fallback = fallback
  Asks <- MCAsks
  Keys = {k1, k2}
  Likes <- MCLikes
  Within <- MCWithin
  Downgrade <- MCDowngrade
  Target <- MCTarget
  Rules <- MCRules
  MemberLists <- MCMemberLists
  FirstRows <- MCFirstRows
  FirstKeys <- MCFirstKeys
  Full = 3
  MaxRows = 3
  MaxGroups = 2
  MaxEdits = 2
SYMMETRY MCSymmetry
INVARIANTS MetricsInv AnswersReturned RegistryInv
