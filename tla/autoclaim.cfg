SPECIFICATION LiveSpec
CONSTANTS
  Labels <- MCLabels
  Namespaces = {"home", "sys"}
  SystemNamespace = "sys"
  NoParent = ""
  Wildcard = "*"
  None = None
  Specs <- MCSpecs
  Keys <- MCKeys
  InPod = FALSE
  HealthzPort = 20251
  MaxPolls = 1
  MaxFailures = 1
  Home = "home"
  Ingresses = {"i1", "i2"}
  Shapes <- MCShapes
  Given <- MCGiven
  Revisions <- MCRevisions
  Written <- MCWritten
  Lent <- MCLent
  MaxUserOps = 1
INVARIANTS
  TypeOK
  Prepared
  HostsExact
PROPERTIES
  ControllerUp
  IngressClaimed
  ClaimsSettle
CHECK_DEADLOCK FALSE
