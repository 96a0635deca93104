SPECIFICATION IngestSpec
CONSTANTS
  Key <- MCKey
  ContentType = {"json", "other", "absent"}
  Body = {"too_large", "unreadable", "syntax", "shape", "event"}
  Source <- MCSource
  Type <- MCType
  Payload = {"null", "value", "nul_escape"}
INVARIANT
  AcceptsByTheRules
CHECK_DEADLOCK FALSE
