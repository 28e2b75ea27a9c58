\* Every standard and every plugin, with buffers for four requests.
SPECIFICATION Spec
CONSTANTS
  Configs <- MCConfigs
  MaxSize = 3
INVARIANTS
  CommandsLegal
  RowsSafe
PROPERTIES
  EveryRequestServed
