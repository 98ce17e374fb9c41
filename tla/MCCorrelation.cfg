\* A direct call with one correlation id in the metadata and another in the claim.
SPECIFICATION Spec
CONSTANTS
  Requests = {q1}
  Submissions <- BothIDs
  TenantFiles <- OneFile
  Verdicts = {5}
  BadFile = BadFile
  NotFound = NotFound
  NoVerdict = NoVerdict
  NoAnswer = NoAnswer
INVARIANTS
  CorrelationIDFromContext
