CONSTANTS
  p1 = p1
  p2 = p2
  p3 = p3
  none = none
  Procs = {p1, p2}
  Buckets <- MCBuckets
  RepoOf <- MCRepoOf
  FolderOrder <- MCFolderOrder
  Paths <- MCPaths
  Kinds = {"agent", "instruction", "skill", "hook"}
  NameOf <- MCNameOf
  KindOf <- MCKindOf
  Names <- MCNames
  None = none
  Similar <- MCSimilar
  Exact = 11
  Commands <- MCCommands
  Keys = {"k"}
  Vals = {"u", "v", "w"}
  Upstream <- MCUpstream
  Broken = {"z.hook"}
  NameOrder <- MCNameOrder
  Initial <- MCInitial
SYMMETRY Symmetry
SPECIFICATION Spec
INVARIANTS QualifiedNameResolves
CHECK_DEADLOCK FALSE
