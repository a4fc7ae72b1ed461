SPECIFICATION Spec
CONSTANTS
  m1 = m1
  m2 = m2
  list = list
  read = read
  post = post
  drop = drop
  grant = grant
  Models = {m1, m2}
  Calls <- MCCalls
  Capabilities <- MCCapabilities
  Groups <- MCGroups
  Sensitive = {"user", "system", "assistant"}
  Streaming = {TRUE, FALSE}
  CallLists <- MCCallLists
  MaxToolIterations = 2
  MaxUsed = 1
  MaxChunks = 2
INVARIANTS AnswerAudited BillingRight RedactionSent ToolLoopRight
PROPERTIES AuditedSpec HandlerReturns
