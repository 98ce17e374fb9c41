SPECIFICATION Spec
CONSTANTS
  Runs = {r1}
  r1 = r1
  Claims <- OneClaim
  Configs <- ScorerConfigs
  NoFile = NoFile
  BadYaml = BadYaml
  None = None
INVARIANTS
  HandledFailureDegrades
