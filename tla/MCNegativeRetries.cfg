SPECIFICATION Spec
CONSTANTS
  Runs = {r1}
  r1 = r1
  Claims <- OneClaim
  Configs <- NegativeConfigs
  NoFile = NoFile
  BadYaml = BadYaml
  None = None
INVARIANTS
  SuccessMeansCalled
