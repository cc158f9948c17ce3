SPECIFICATION Spec
CONSTANTS
  Labels <- MCLabels
  Namespaces <- MCNamespaces
  SystemNamespace = "sys"
  NoParent = ""
  Wildcard = "*"
  None = None
  Specs <- MCSpecs
  Keys <- MCKeys
  Caches <- MCCaches
  Askers <- MCAskers
INVARIANTS
  FindsServer
  PrefersPrimary
  KeepsOrder
  SearchInv
CHECK_DEADLOCK FALSE
