CONSTANTS
  Namespaces <- MCNamespaces
  Default <- MCDefault
  Strict = FALSE
  Ids = {i1, i2}
  Pubs = {p1}
  Chans <- MCChans
  Pats <- MCPats
  Ranks = {0, 1}
  Scoped = TRUE
  MaxOps = 3
  MaxPubs = 2
SPECIFICATION Spec
INVARIANTS IndexAgrees PublishReaches CachedMatchIsExact
CHECK_DEADLOCK FALSE
