SPECIFICATION WatchSpec
CONSTANTS
  notes = notes
  env = env
  Files = {notes, env}
  Resources <- MCResources
  Defaults <- MCDefaults
  Policies <- MCPolicies
  MaxSuffixes = 2
  Writable <- MCContents
  MaxEdits = 3
  MaxStarts = 1
INVARIANT WatchInv
 
CHECK_DEADLOCK FALSE
