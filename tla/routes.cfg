SPECIFICATION Spec
CONSTANTS
  Ingresses = {"ing"}
  Services = {"web", "hello"}
  Hosts = {"acme.org"}
  Paths = {"/", "/api"}
  PortNumbers = {80, 443}
  Ports <- MCPorts
  Wanted <- MCWanted
  AutoClaim = TRUE
  AutoClaimMaxRetries = 1
  None = None
  MaxBirths = 1
  MaxUserOps = 5
  MaxFaults = 1
  MaxRestarts = 1
INVARIANTS
  RoutedHeld
  RoutedHeldInv
  CollectionScheduled
CHECK_DEADLOCK FALSE
