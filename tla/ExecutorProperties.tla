------------------------- MODULE ExecutorProperties -------------------------
(***************************************************************************)
(* What makes the DAG executor correct: properties of the specification in *)
(* Executor, and the abstract specification it implements.                 *)
(***************************************************************************)
EXTENDS Executor

Nodes(r) == cfg[r].nodes

\* The score of a claim when every enrichment node answers.
FullyEnrichedScore(c) ==
  Score([policy_status        |-> Lookup(c.policyNumber).status,
         policy_coverage_type |-> Lookup(c.policyNumber).coverageType,
         address_valid        |-> FormatBool(Normalize(c.rawAddress).valid)])

\* Losing enrichment never makes a claim look safer: whatever nodes failed, were
\* skipped, were not enabled or are missing from the file, the score is at least
\* the one a full enrichment gives.  This is what the defaults of Run
\* (executor.go, "trained-in defaults, not nulls") and the weights of Score
\* (scoring.go, "treated as their riskiest case") are for.
NoFlatteredScore ==
  \A r \in Runs : local[r].score # None
                    => local[r].score >= FullyEnrichedScore(claim[r])

\* Consumers and caller are told the same thing: every event, on the topic or
\* still on its way there, belongs to a run that had finished scoring, carries
\* the score that run answers with, and says "degraded" only if the answer does,
\* also when the event is written after the publish node timed out.
EventsAgreeWithAnswer ==
  \A m \in inflight \cup topic :
    /\ stage[m.run] = "publishing"
    /\ m.score = local[m.run].score
    /\ m.status = "degraded" => local[m.run].status = "degraded"

\* An event and the answer of its run differ only over a failed publish: when
\* consumers read "scored" and the caller is told "degraded", or will be, the publish
\* node the event came from, or one after it, has failed since.  A failure in an
\* earlier stage or of an earlier publish node is in the event itself (Run builds the
\* event of a node from the status at that time, and retries send it unchanged).
OnlyPublishFailuresDisagree ==
  \A m \in inflight \cup topic :
    m.status # local[m.run].status =>
      \E i \in DOMAIN Nodes(m.run) :
        /\ m.node <= i /\ outcome[m.run][i] = "handled"
        /\ RunsIn(Nodes(m.run)[i], "publishing", claim[m.run].tenant)

\* An answer with status "scored" means that the event of every publish node of
\* the DAG is on the topic, and says "scored" too (nodes whose negative
\* max_retries keeps callWithResilience from calling them excepted).
ScoredMeansPublished ==
  \A r \in Runs :
    answer[r] = "returned" /\ local[r].status = "scored" =>
      \A i \in DOMAIN Nodes(r) :
        RunsIn(Nodes(r)[i], "publishing", claim[r].tenant) /\ Nodes(r)[i].maxRetries >= 0 =>
          \E m \in topic : /\ m.run = r /\ m.node = i
                           /\ m.status = "scored" /\ m.score = local[r].score

\* A result accounts for every node of the file that was loaded: each node that
\* applies to the tenant was passed to callWithResilience in its stage and counts as
\* successful (also when a negative max_retries kept it from being called), or failed
\* with the policy skip or degrade; and the status is "degraded" exactly when a node
\* outside the scoring stage failed.
AnswerAccountsForEveryNode ==
  \A r \in Runs : answer[r] = "returned" =>
    /\ \A i \in DOMAIN Nodes(r) :
         (\E s \in Stages : RunsIn(Nodes(r)[i], s, claim[r].tenant)) =>
           \/ outcome[r][i] = "ok"
           \/ outcome[r][i] = "handled" /\ Nodes(r)[i].onFailure \in {"skip", "degrade"}
    /\ local[r].status = "degraded" <=>
         \E i \in DOMAIN Nodes(r) :
           outcome[r][i] = "handled" /\ Nodes(r)[i].service # "model-service"

\* A node is given up exactly when its attempts are spent, or earlier because
\* the request's context is done; never after more than 1 + max_retries calls
\* (callWithResilience).
RetryBudgetKept ==
  \A r \in Runs : \A i \in DOMAIN Nodes(r) :
    /\ tries[r][i] > 0 => tries[r][i] <= 1 + Nodes(r)[i].maxRetries
    /\ outcome[r][i] \in {"handled", "aborted"} =>
         tries[r][i] = 1 + Nodes(r)[i].maxRetries \/ ctxDone[r]

\* The context of the run ended before it had a score, and no attempt that was
\* started earlier is still out.
CutOff(r) == ctxDone[r] /\ call[r] # "calling" /\ local[r].score = None

\* Once a run is cut off it never returns a result: later attempts are made under
\* the same finished context, whatever its retries and its failure policies.
CutOffRunsNeverReturn ==
  \A r \in Runs : [](CutOff(r) => [](answer[r] # "returned"))

\* A request that came with a deadline is answered, whatever its downstreams do:
\* the deadline ends the version lookup, and the timeouts of the attempts, the
\* bounded retries and the bounded loops end the rest.
BoundedRunsEnd == \A r \in Runs : claim[r].deadline ~> Ended(r)

\* A run that has loaded its DAG is answered even without a deadline.
LoadedRunsEnd == \A r \in Runs : stage[r] \in Stages ~> Ended(r)

\* What is left of a run: its stages, then the nodes of the loop it is in, then the
\* attempts and backoffs of the call it is in.
StagesLeft(r) ==
  IF Ended(r) THEN 0
  ELSE CASE stage[r] = "version"    -> 5
         [] stage[r] = "file"       -> 4
         [] stage[r] = "enrichment" -> 3
         [] stage[r] = "scoring"    -> 2
         [] stage[r] = "publishing" -> 1

NodesLeft(r) == Len(Nodes(r)) + 1 - idx[r]

TurnsLeft(r) ==
  CASE call[r] = "none" ->
         IF AtNode(r) /\ CurrentNode(r).maxRetries >= 0
         THEN 2 * (1 + CurrentNode(r).maxRetries) ELSE 0
    [] call[r] = "backoff" -> 2 * (CurrentNode(r).maxRetries - attempt[r])
    [] OTHER               -> 2 * (CurrentNode(r).maxRetries - attempt[r]) + 1

Left(r) == <<StagesLeft(r), NodesLeft(r), TurnsLeft(r)>>

\* The lexicographic order of what is left.
Less(a, b) ==
  \/ a[1] < b[1]
  \/ a[1] = b[1] /\ a[2] < b[2]
  \/ a[1] = b[1] /\ a[2] = b[2] /\ a[3] < b[3]

\* No run goes round in circles: what is left of it is made of natural numbers, it
\* gets less with every step of the run, and nothing else that happens, be it
\* another run, the caller, the writer or an edit of the DAG file, ever adds to it.
\* So a run can only take finitely many steps, whatever file it loaded (the loops
\* of Run and callWithResilience).
RunsDescend ==
  [][\A r \in Runs :
       /\ Left(r)' \in Nat \X Nat \X Nat
       /\ RunStep(r) \/ Left(r)' # Left(r) => Less(Left(r)', Left(r))]_vars

\* The executor implements ClaimOutcome: the verdict is settled when the scoring
\* loop ends with a score, degrading is setting status to "degraded", and an
\* event is visible once the broker has it.
Outcome == INSTANCE ClaimOutcome WITH
  Requests  <- Runs,
  Verdicts  <- Scores,
  NoVerdict <- None,
  verdict   <- [r \in Runs |-> IF stage[r] = "publishing" THEN local[r].score ELSE None],
  degraded  <- [r \in Runs |-> local[r].status = "degraded"],
  reply     <- [r \in Runs |->
                 CASE answer[r] = "pending"  -> [kind |-> "pending"]
                   [] answer[r] = "failed"   -> [kind |-> "error"]
                   [] answer[r] = "returned" -> [kind   |-> "result",
                                                 status |-> local[r].status,
                                                 score  |-> local[r].score]],
  events    <- {[request |-> m.run, status |-> m.status, score |-> m.score] : m \in topic}

\* One verdict, one answer, and events that agree with both (Executor.Run with
\* KafkaPublisher.Publish).
ImplementsClaimOutcome == Outcome!Spec
-----------------------------------------------------------------------------
(* What the repository says and the code does not do.                      *)

\* "runs fn ... retrying up to node.MaxRetries times": a node reported as
\* successful has been called (callWithResilience).
SuccessMeansCalled ==
  \A r \in Runs : \A i \in DOMAIN Nodes(r) : outcome[r][i] = "ok" => tries[r][i] >= 1

\* "both simply mark the overall result degraded": a result that any node failed
\* to contribute to says so (nodeFailureHandled).
HandledFailureDegrades ==
  \A r \in Runs : answer[r] = "returned" =>
    ((\E i \in DOMAIN Nodes(r) : outcome[r][i] = "handled") => local[r].status = "degraded")

\* "Every downstream call is also now bounded by timeout_ms ... instead of being
\* able to hang indefinitely": every run is answered.
EveryRunEnds == \A r \in Runs : <>Ended(r)
=============================================================================
