\* Two requests at once: two claims, one claim twice, or a direct call.
SPECIFICATION Spec
CONSTANTS
  Requests = {q1, q2}
  Submissions <- Resubmitted
  TenantFiles <- OneFile
  Verdicts = {5, 40}
  BadFile = BadFile
  NotFound = NotFound
  NoVerdict = NoVerdict
  NoAnswer = NoAnswer
INVARIANTS
  AnswerMatchesEvents
