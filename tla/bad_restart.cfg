SPECIFICATION Spec
CONSTANTS
  Labels <- MCLabels
  Namespaces <- MCNamespaces
  SystemNamespace = "sys"
  NoParent = ""
  Wildcard = "*"
  None = None
  Matches <- MCMatches
  Specs <- RivalSpecs
  Keys <- RivalKeys
  UserKeys <- RivalKeys
  Wanted <- RivalWanted
  Edits = {}
  Routes = {}
  WipeOnDelete = FALSE
  FinalizerRemovalDeletes = TRUE
  MaxUserOps = 2
  MaxFaults = 0
  MaxRestarts = 1
  MaxNotes = 1
INVARIANTS
  UniquePrimary
CHECK_DEADLOCK FALSE
