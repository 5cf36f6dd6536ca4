\* a policy that is accepted, with quotes and null
SPECIFICATION StartSpec
CONSTANTS
  Threads = {t1}
  Valid = {1, 2}
  Undecodable = {}
  FileMayVanish = FALSE
  MaxVersion = 2
  Documents <- QuotedDocuments
  Names <- MCNames
  Prefixed <- MCPrefixed
  Settings <- MCSettings
  Findings <- MCFindings
INVARIANT AcceptedIsUnderstood
CHECK_DEADLOCK FALSE
