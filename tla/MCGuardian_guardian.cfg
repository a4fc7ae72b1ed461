SPECIFICATION FairSpec
CONSTANTS
  beat = beat
  console = console
  a1 = a1
  NoAgent = NoAgent
  Runners = {beat, console}
  Consoles = {console}
  Findings = {1, 2}
  Agents = {a1}
  Severity <- MCSeverity
  AgentOf <- MCAgentOf
  MaxRows = 2
  MaxAborts = 1
INVARIANT GuardianInv
PROPERTIES ExecutedIsEnforced FindingsHandled
CHECK_DEADLOCK FALSE
