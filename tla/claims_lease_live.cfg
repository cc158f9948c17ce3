SPECIFICATION LiveSpec
CONSTANTS
  Labels <- MCLabels
  Namespaces <- MCNamespaces
  SystemNamespace = "sys"
  NoParent = ""
  Wildcard = "*"
  None = None
  Matches <- MCMatches
  Specs <- LeaseSpecs
  Keys <- LeaseKeys
  UserKeys <- LeaseKeys
  Wanted <- LeaseWanted
  Edits = {}
  Routes = {}
  WipeOnDelete = FALSE
  FinalizerRemovalDeletes = FALSE
  MaxUserOps = 3
  MaxFaults = 0
  MaxRestarts = 0
  MaxNotes = 1
PROPERTIES
  SharedGranted
CHECK_DEADLOCK FALSE
