SPECIFICATION LiveSpec
CONSTANTS
  Ingresses = {"ing"}
  Services = {"web"}
  Hosts = {"acme.org"}
  Paths = {"/"}
  PortNumbers = {80, 443}
  Ports <- LivePorts
  Wanted <- LiveWanted
  AutoClaim = FALSE
  AutoClaimMaxRetries = 0
  None = None
  MaxBirths = 1
  MaxUserOps = 5
  MaxFaults = 1
  MaxRestarts = 0
PROPERTIES
  ServiceReleased
  IngressServed
CHECK_DEADLOCK FALSE
