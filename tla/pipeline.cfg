\* two runs, one thread for the model checks, one reload
SPECIFICATION Spec
CONSTANTS
  Runs = {r1, r2}
  Policies <- MCPolicies
  Inputs <- MCInputs
  Replies <- MCReplies
  Workers = 1
INVARIANTS
  PipelineInv
  AllowedForAReason
  RulesDeleteInTriage
  DecideIsMostSevere
PROPERTY
  EveryRunDecides
CHECK_DEADLOCK FALSE
