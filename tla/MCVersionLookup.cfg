SPECIFICATION FairSpec
CONSTANTS
  Runs = {r1}
  r1 = r1
  Claims <- BothCallers
  Configs <- SmallConfigs
  NoFile = NoFile
  BadYaml = BadYaml
  None = None
PROPERTIES
  EveryRunEnds
