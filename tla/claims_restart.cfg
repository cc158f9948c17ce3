SPECIFICATION Spec
CONSTANTS
  Labels <- MCLabels
  Namespaces <- MCNamespaces
  SystemNamespace = "sys"
  NoParent = ""
  Wildcard = "*"
  None = None
  Matches <- MCMatches
  Specs <- EditSpecs
  Keys <- EditKeys
  UserKeys <- EditUsers
  Wanted <- EditWanted
  Edits <- EditEdits
  Routes = {}
  WipeOnDelete = FALSE
  FinalizerRemovalDeletes = TRUE
  MaxUserOps = 2
  MaxFaults = 1
  MaxRestarts = 1
  MaxNotes = 1
INVARIANTS
  TypeOK
  FinalizerHeld
  NoLostWork
CHECK_DEADLOCK FALSE
