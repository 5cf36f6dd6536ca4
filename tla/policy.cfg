\* one thread asks for the policy, once the process has started
SPECIFICATION StartSpec
CONSTANTS
  Threads = {t1}
  Valid <- MCValid
  Undecodable = {3}
  FileMayVanish = FALSE
  MaxVersion = 5
  Documents <- MCDocuments
  Names <- MCNames
  Prefixed <- MCPrefixed
  Settings <- MCSettings
  Findings <- MCFindings
INVARIANTS
  ReloadInv
  RunsOnlyConfigured
  PrecedenceKept
  AcceptedMeansWhatItSays
PROPERTY EditsApplyOnceStarted
CHECK_DEADLOCK FALSE
