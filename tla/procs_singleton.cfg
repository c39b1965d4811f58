CONSTANTS
  a = a
  b = b
  c = c
  p1 = p1
  p2 = p2
  p3 = p3
  none = none
  torn = torn
  Ids <- MCIds
  Types <- MCTypes
  Groups <- MCGroups
  Statuses <- MCStatuses
  GroupOf <- MCGroupOf
  ValidStatuses <- MCValidStatuses
  Singletons <- MCSingletons
  MemoryBacked <- MCMemoryBacked
  NotesGroup = "notes"
  NoteType = "note"
  LinksGroup = "links"
  IssueType = "known_issue"
  FileChange = "file_change"
  MaxTime = 1
  None = none
  Torn = torn
  Procs <- MCProcs
  Commands <- MCCommands
  LoadOrder <- MCLoadOrder
  InitialStores <- MCInitialStores
  MaxRuns = 1
  MaxCrashes = 1
SYMMETRY Symmetry
SPECIFICATION Spec
INVARIANT OneActiveSingleton
CHECK_DEADLOCK FALSE
