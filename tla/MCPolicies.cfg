SPECIFICATION FairSpec
CONSTANTS
  Runs = {r1}
  r1 = r1
  Claims <- AllClaims
  Configs <- AllConfigs
  NoFile = NoFile
  BadYaml = BadYaml
  None = None
INVARIANTS
  TypeOK
  NoFlatteredScore
  EventsAgreeWithAnswer
  OnlyPublishFailuresDisagree
  ScoredMeansPublished
  AnswerAccountsForEveryNode
  RetryBudgetKept
PROPERTIES
  RunsDescend
  CutOffRunsNeverReturn
  BoundedRunsEnd
  LoadedRunsEnd
