CONSTANTS
  a = a
  b = b
  c = c
  l = l
  m = m
  none = none
  Ids <- MCIds
  Types <- MCTypes
  Groups <- MCGroups
  Statuses <- MCStatuses
  Tags <- MCTags
  GroupOf <- MCGroupOf
  Current <- MCCurrent
  TypeOrder <- MCTypeOrder
  Created <- MCCreated
  Limit <- MCLimit
  Unlimited = 5
  InitialStores <- MCInitialStores
  Requests <- MCRequests
  MaxEdits = 1
  None = none
SPECIFICATION Spec
INVARIANTS ExportTypeOK ReachExact BoundaryKept PrintedOnce LimitsAreApart
PROPERTIES ExportEnds
