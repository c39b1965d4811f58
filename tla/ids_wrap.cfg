CONSTANTS
  none = none
  Ids <- MCIds
  Types <- MCTypes
  Groups <- MCGroups
  Statuses <- MCStatuses
  GroupOf <- MCGroupOf
  ValidStatuses <- MCValidStatuses
  Singletons <- MCSingletons
  MemoryBacked <- MCMemoryBacked
  NotesGroup = "notes"
  NoteType = "note"
  LinksGroup = "links"
  IssueType = "known_issue"
  FileChange = "file_change"
  MaxTime = 0
  None = none
  NewNodes <- MCNewNodes
  Queries = {}
  Prefixes = 4
  ShortPrefixes = 3
  Slots = 1
  Attempts = 5
  Graphs <- MCGraphs
  MaxRuns = 2
  MaxCrashes = 1
  MaxCommands = 2
SPECIFICATION MigrationSpec
INVARIANT FreshWhileFree
CHECK_DEADLOCK FALSE
