SPECIFICATION Spec
CONSTANTS
    r1 = r1  e1 = e1  e2 = e2  task = task  call = call  x1 = x1  x2 = x2
    Rows = {r1}
    Events = {e1, e2}
    Jobs = {task, call}
    Retries <- MCRetries
    Exporters = {x1, x2}
    Limit = 1
    MaxTime = 2
    MaxFaults = 1
    MaxOverlaps = 1
INVARIANTS TrailInv NothingSkipped RepeatsExplained 
PROPERTIES Exports
CHECK_DEADLOCK FALSE
