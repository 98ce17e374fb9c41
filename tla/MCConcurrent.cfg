SPECIFICATION Spec
CONSTANTS
  Runs = {r1, r2}
  r1 = r1
  r2 = r2
  Claims <- OneClaim
  Configs <- TinyConfigs
  NoFile = NoFile
  BadYaml = BadYaml
  None = None
PROPERTIES
  ImplementsClaimOutcome
