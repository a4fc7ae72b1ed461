SPECIFICATION EngineSpec
CONSTANTS
  ssn = ssn
  secret = secret
  word = word
  folder = folder
  outer = outer
  policy = policy
  plain = plain
  ring = ring
  other = other
  intent = intent
  NoNode = NoNode
  NoBundle = NoBundle
  Marks = {ssn, secret, word}
  Pii = {ssn}
  Threats = {secret}
  Ssn = ssn
  Nodes = {folder, outer, policy, plain, ring, other, intent}
  Folders = {folder, outer, ring, other}
  Intents = {intent}
  Parent <- MCParent
  RulesOf <- MCRulesOf
  KeywordOf <- MCKeywordOf
  PackRules <- MCPackRules
  Builtin <- MCBuiltin
  Bundles <- MCBundles
INVARIANTS PolicyInv SentClean
PROPERTY InspectionEnds
