\* One request of every kind, and every tenants file.
SPECIFICATION FairSpec
CONSTANTS
  Requests = {q1}
  Submissions <- AllSubmissions
  TenantFiles <- AllFiles
  Verdicts = {5}
  BadFile = BadFile
  NotFound = NotFound
  NoVerdict = NoVerdict
  NoAnswer = NoAnswer
INVARIANTS
  RefusedLeavesNoTrace
  TraceUnbroken
PROPERTIES
  SuspendedStaysOut
  UnconfiguredNeverScored
  EverySubmissionAnswered
