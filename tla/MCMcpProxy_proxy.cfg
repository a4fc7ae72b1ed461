SPECIFICATION Spec
CONSTANTS
  git = git
  hr = hr
  query = query
  export = export
  Servers = {git, hr}
  Http = {hr}
  Tools = {query, export}
  Resources <- MCResources
  Rules <- MCRules
  Contents <- MCContents
  MaxMessages = 3
  MaxNotes = 1
  MaxFaults = 1
INVARIANTS ProxyInv TrafficScreened
PROPERTY LoopGoesOn
CHECK_DEADLOCK FALSE
