SPECIFICATION LiveSpec
CONSTANTS
  Labels <- MCLabels
  Namespaces <- MCNamespaces
  SystemNamespace = "sys"
  NoParent = ""
  Wildcard = "*"
  None = None
  Matches <- MCMatches
  Specs <- RivalSpecs
  Keys <- RivalKeys
  UserKeys <- RivalKeys
  Wanted <- RivalWanted
  Edits = {}
  Routes = {}
  WipeOnDelete = FALSE
  FinalizerRemovalDeletes = TRUE
  MaxUserOps = 3
  MaxFaults = 0
  MaxRestarts = 0
  MaxNotes = 1
PROPERTIES
  DeletionCompletes
  LonePrimaryGranted
CHECK_DEADLOCK FALSE
