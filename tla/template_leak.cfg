CONSTANTS
  Keys <- MCKeys
  Values <- MCValues
  Order <- MCOrder
  Version <- MCVersion
  BadVersion = 0
  Parts <- MCParts
  Unset = "none"
  Templates <- MCTemplates
  Contexts <- MCContexts
  Sentinels <- MCSentinels
SPECIFICATION Spec
INVARIANTS RendersAsWritten
CHECK_DEADLOCK FALSE
