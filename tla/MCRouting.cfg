SPECIFICATION Spec
CONSTANTS
  Configs <- MCConfigs
INVARIANTS
  RoutesSafe
PROPERTIES
  EveryHopNearer
  Arrives
