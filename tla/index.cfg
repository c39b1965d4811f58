CONSTANTS
  a = a
  b = b
  c = c
  none = none
  Ids <- MCIds
  Types <- MCTypes
  Groups <- MCGroups
  Statuses <- MCStatuses
  GroupOf <- MCGroupOf
  ValidStatuses <- MCValidStatuses
  Singletons <- MCSingletons
  MemoryBacked <- MCMemoryBacked
  NotesGroup = "notes"
  NoteType = "note"
  LinksGroup = "links"
  IssueType = "known_issue"
  FileChange = "file_change"
  MaxTime = 0
  None = none
  Tags = {"x"}
  MaxRepeat = 2
  MaxListed = 2
SYMMETRY Symmetry
VIEW View
SPECIFICATION Spec
INVARIANTS IndexTypeOK ListsExact
PROPERTY KeepsPromise
