SPECIFICATION Spec
CONSTANTS
  Labels <- MCLabels
  Namespaces <- MCNamespaces
  SystemNamespace = "sys"
  NoParent = ""
  Wildcard = "*"
  None = None
  Matches <- MCMatches
  Specs <- LeaseSpecs
  Keys <- LeaseKeys
  UserKeys <- LeaseKeys
  Wanted <- LeaseWanted
  Edits <- LeaseEdits
  Routes <- LeaseRoutes
  WipeOnDelete = TRUE
  FinalizerRemovalDeletes = FALSE
  MaxUserOps = 3
  MaxFaults = 1
  MaxRestarts = 0
  MaxNotes = 1
INVARIANTS
  NoLostWork
PROPERTIES
  SweepSpares
CHECK_DEADLOCK FALSE
