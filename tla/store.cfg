CONSTANTS
  a = a
  b = b
  c = c
  none = none
  Ids <- MCIds
  Types <- MCTypes
  Groups <- MCGroups
  Statuses <- MCStatuses
  GroupOf <- MCGroupOf
  ValidStatuses <- MCValidStatuses
  Singletons <- MCSingletons
  MemoryBacked <- MCMemoryBacked
  NotesGroup = "notes"
  NoteType = "note"
  LinksGroup = "links"
  IssueType = "known_issue"
  FileChange = "file_change"
  MaxTime = 1
  None = none
  NewNodes <- MCNewNodes
  Queries <- MCQueries
SYMMETRY Symmetry
VIEW View
SPECIFICATION Spec
INVARIANTS TypeOK IndexIsRebuild OneHome StoredNodesValid OneActiveSingleton
PROPERTIES IdentityStable WritesResolveRefs FailureIsHarmless GcSettles
