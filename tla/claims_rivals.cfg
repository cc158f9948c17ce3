SPECIFICATION Spec
CONSTANTS
  Labels <- MCLabels
  Namespaces <- MCNamespaces
  SystemNamespace = "sys"
  NoParent = ""
  Wildcard = "*"
  None = None
  Matches <- MCMatches
  Specs <- RivalSpecs
  Keys <- RivalKeys
  UserKeys <- RivalKeys
  Wanted <- RivalWanted
  Edits <- RivalEdits
  Routes = {}
  WipeOnDelete = FALSE
  FinalizerRemovalDeletes = TRUE
  MaxUserOps = 4
  MaxFaults = 0
  MaxRestarts = 0
  MaxNotes = 1
INVARIANTS
  UniquePrimary
  UniquePrimaryInv
PROPERTIES
  UserIntentSurvives
CHECK_DEADLOCK FALSE
