SPECIFICATION Spec
CONSTANTS
  Configs <- MCConfigs
INVARIANTS
  GrantsSound
  GrantsWellChosen
  FairWait
