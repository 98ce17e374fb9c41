------------------------------ MODULE Executor ------------------------------
(***************************************************************************)
(* The DAG executor of the orchestration service: Executor.Run with the    *)
(* loader it starts with, the resilience wrapper around every node call    *)
(* and the Kafka publisher it ends with (internal/dag/executor.go,         *)
(* internal/dag/loader.go, internal/kafka/publisher.go).                   *)
(*                                                                         *)
(* A run is one execution of Run, one per ProcessClaim request; the gRPC   *)
(* server gives each its own goroutine, so the steps of runs interleave.   *)
(* Runs share the DAG files on disk, which an operator may edit at any     *)
(* time, and the Kafka writer.  An RPC to an enrichment service or to the  *)
(* model service either answers what the service computes or fails.        *)
(***************************************************************************)
EXTENDS DagConfig, Scoring, Enrichment

CONSTANTS
  Runs,          \* the executions of Run
  Claims,        \* the requests a run may serve
  Configs,       \* the parsed contents a DAG file may have
  NoFile,        \* the DAG file does not exist or cannot be read
  BadYaml,       \* the DAG file does not parse
  None           \* scoreResp is nil

Claim == [tenant: STRING, product: STRING, eventType: STRING,
          claimantName: Text, rawAddress: RawAddress, policyNumber: Text,
          deadline: BOOLEAN]

Files == Configs \cup {NoFile, BadYaml}

Scores == 0 .. maxScore

ASSUME ClaimsAssumption  == Claims \subseteq Claim
ASSUME ConfigsAssumption == Configs \subseteq Config
ASSUME FilesAssumption   == /\ NoFile \notin Configs
                            /\ BadYaml \notin Configs
ASSUME NoneAssumption    == None \notin Scores

\* Where Load looks for the file of a claim.
Path(c) == <<c.tenant, c.product, c.eventType>>

Paths == {Path(c) : c \in Claims}

VARIABLES
  disk,      \* path -> the contents of the DAG file there
  claim,     \* run -> the claim it was called with
  ctxDone,   \* run -> the context of the request has expired or been cancelled
  stage,     \* run -> where Run is: the two steps of Load, then the three loops
  answer,    \* run -> "pending", or how Run returned
  cfg,       \* run -> the configuration it loaded
  idx,       \* run -> the node the current loop is at
  call,      \* run -> where callWithResilience is
  attempt,   \* run -> the attempt callWithResilience is at
  local,     \* run -> the local variables of Run
  outcome,   \* run -> node -> how its call ended (kept for the properties)
  tries,     \* run -> node -> attempts made (kept for the properties)
  event,     \* run -> the event its publish node has built
  inflight,  \* events handed to the Kafka writer and not yet settled
  topic      \* events on claims.realtime

env     == <<disk, claim, ctxDone>>
history == <<outcome, tries>>
kafka   == <<event, inflight, topic>>

vars == <<disk, claim, ctxDone, stage, answer, cfg, idx, call, attempt, local,
          outcome, tries, event, inflight, topic>>

\* The values of normalized_address: what the client sent, or what the address
\* service made of it (the empty string when the response is nil).
Addresses == {c.rawAddress : c \in Claims} \cup {<<>>}
               \cup {Normalize(c.rawAddress).normalizedAddress : c \in Claims}

Local == [status: {"scored", "degraded"},
          claimantIDHash: {<<>>} \cup {Hash(c.claimantName) : c \in Claims},
          normalizedAddress: Addresses,
          addressValid: BOOLEAN,
          policyStatus: {""} \cup {Lookup(c.policyNumber).status : c \in Claims},
          policyCoverageType: {""} \cup {Lookup(c.policyNumber).coverageType : c \in Claims},
          score: Scores \cup {None}]

\* An event as a run builds it, and as an attempt hands it to the writer.
Built == [status: {"scored", "degraded"}, score: Scores \cup {None}]

Event == [run: Runs, node: Nat, attempt: Nat,
          status: {"scored", "degraded"}, score: Scores]

NodeOutcome == {"notrun", "ok", "handled", "aborted"}

TypeOK ==
  /\ disk \in [Paths -> Files]
  /\ claim \in [Runs -> Claims]
  /\ ctxDone \in [Runs -> BOOLEAN]
  /\ stage \in [Runs -> {"version", "file"} \cup Stages]
  /\ answer \in [Runs -> {"pending", "returned", "failed"}]
  /\ cfg \in [Runs -> Config]
  /\ idx \in [Runs -> Nat \ {0}]
  /\ call \in [Runs -> {"none", "calling", "doomed", "backoff"}]
  /\ attempt \in [Runs -> Nat]
  /\ local \in [Runs -> Local]
  /\ outcome \in [Runs -> Seq(NodeOutcome)]
  /\ tries \in [Runs -> Seq(Nat)]
  /\ event \in [Runs -> Built]
  /\ inflight \subseteq Event
  /\ topic \subseteq Event
-----------------------------------------------------------------------------
InitLocal(c) ==
  [status |-> "scored", claimantIDHash |-> <<>>,
   normalizedAddress |-> c.rawAddress, addressValid |-> FALSE,
   policyStatus |-> "", policyCoverageType |-> "", score |-> None]

\* Every run has just been entered and is about to resolve its DAG version.
Init ==
  /\ disk \in [Paths -> Files]
  /\ claim \in [Runs -> Claims]
  /\ ctxDone = [r \in Runs |-> FALSE]
  /\ stage = [r \in Runs |-> "version"]
  /\ answer = [r \in Runs |-> "pending"]
  /\ cfg = [r \in Runs |-> [nodes |-> <<>>]]
  /\ idx = [r \in Runs |-> 1]
  /\ call = [r \in Runs |-> "none"]
  /\ attempt = [r \in Runs |-> 0]
  /\ local = [r \in Runs |-> InitLocal(claim[r])]
  /\ outcome = [r \in Runs |-> <<>>]
  /\ tries = [r \in Runs |-> <<>>]
  /\ event = [r \in Runs |-> [status |-> "scored", score |-> None]]
  /\ inflight = {}
  /\ topic = {}

At(r, s) == answer[r] = "pending" /\ stage[r] = s

\* The run is in one of the three loops and callWithResilience is at c.
In(r, c) == answer[r] = "pending" /\ stage[r] \in Stages /\ call[r] = c

CurrentNode(r) == cfg[r].nodes[idx[r]]

\* The loop has a node to look at, and it is one this stage calls.
AtNode(r) == idx[r] <= Len(cfg[r].nodes)

Runnable(r) == AtNode(r) /\ RunsIn(CurrentNode(r), stage[r], claim[r].tenant)

Ended(r) == answer[r] # "pending"
-----------------------------------------------------------------------------
(* Load: ask tenant-config-svc for the version, then read and parse the    *)
(* file.  The version is only compared with the file's for a log line.     *)

ResolveVersion(r) ==
  /\ At(r, "version")
  /\ stage' = [stage EXCEPT ![r] = "file"]
  /\ UNCHANGED <<env, answer, cfg, idx, call, attempt, local, history, kafka>>

\* A mutation: the lookup does not get the context of the request.
MutResolveVersionFails(r) ==
  /\ At(r, "version") /\ ~ctxDone[r]
  /\ answer' = [answer EXCEPT ![r] = "failed"]
  /\ UNCHANGED <<env, stage, cfg, idx, call, attempt, local, history, kafka>>

ResolveVersionFails(r) ==
  /\ At(r, "version")
  /\ answer' = [answer EXCEPT ![r] = "failed"]
  /\ UNCHANGED <<env, stage, cfg, idx, call, attempt, local, history, kafka>>

ReadConfig(r) ==
  /\ At(r, "file")
  /\ LET file == disk[Path(claim[r])]
     IN  IF file \in Configs
         THEN /\ cfg' = [cfg EXCEPT ![r] = file]
              /\ stage' = [stage EXCEPT ![r] = "enrichment"]
              /\ outcome' = [outcome EXCEPT ![r] = [i \in 1 .. Len(file.nodes) |-> "notrun"]]
              /\ tries' = [tries EXCEPT ![r] = [i \in 1 .. Len(file.nodes) |-> 0]]
              /\ UNCHANGED answer
         ELSE /\ answer' = [answer EXCEPT ![r] = "failed"]
              /\ UNCHANGED <<cfg, stage, history>>
  /\ UNCHANGED <<env, idx, call, attempt, local, kafka>>
-----------------------------------------------------------------------------
(* The three loops over cfg.Nodes.                                         *)

\* Not a node of this stage, not enabled for the tenant, or not recognized.
SkipNode(r) ==
  /\ In(r, "none")
  /\ AtNode(r) /\ ~Runnable(r)
  /\ idx' = [idx EXCEPT ![r] = @ + 1]
  /\ UNCHANGED <<env, stage, answer, cfg, call, attempt, local, history, kafka>>

\* The feature map of the scoring call.
FormatBool(b) == IF b THEN "true" ELSE "false"

Features(l) == [policy_status        |-> l.policyStatus,
                policy_coverage_type |-> l.policyCoverageType,
                address_valid        |-> FormatBool(l.addressValid)]

\* The locals once the call of a node succeeded with the service's answer.
Absorb(l, c, service) ==
  CASE service = "claimant-id-hashing-svc" ->
         [l EXCEPT !.claimantIDHash = Hash(c.claimantName)]
    [] service = "address-normalization-svc" ->
         [l EXCEPT !.normalizedAddress = Normalize(c.rawAddress).normalizedAddress,
                   !.addressValid = Normalize(c.rawAddress).valid]
    [] service = "policy-lookup-svc" ->
         [l EXCEPT !.policyStatus = Lookup(c.policyNumber).status,
                   !.policyCoverageType = Lookup(c.policyNumber).coverageType]
    [] service = "model-service" ->
         [l EXCEPT !.score = Score(Features(l))]
    [] service = "kafka-publisher" -> l

\* The locals once it succeeded with the zero response: the getters of a nil
\* response answer "", "" and false, and a nil score response is kept as nil.
AbsorbNil(l, service) ==
  CASE service = "claimant-id-hashing-svc" -> [l EXCEPT !.claimantIDHash = <<>>]
    [] service = "address-normalization-svc" ->
         [l EXCEPT !.normalizedAddress = <<>>, !.addressValid = FALSE]
    [] service = "policy-lookup-svc" ->
         [l EXCEPT !.policyStatus = "", !.policyCoverageType = ""]
    [] service = "model-service" -> [l EXCEPT !.score = None]
    [] service = "kafka-publisher" -> l

\* A mutation: every event says "scored".
MutEventOf(r) == [status |-> "scored", score |-> local[r].score]

\* The event of a publish node.  It is built once, before callWithResilience.
EventOf(r) == [status |-> local[r].status, score |-> local[r].score]

Publishes(r) == CurrentNode(r).service = "kafka-publisher"

BuildEvent(r) ==
  event' = IF Publishes(r) THEN [event EXCEPT ![r] = EventOf(r)] ELSE event

\* What the k-th attempt hands to the writer: the event e that was built.
Message(r, k, e) == [run |-> r, node |-> idx[r], attempt |-> k,
                     status |-> e.status, score |-> e.score]

\* A mutation: attempts are made under a fresh context.
MutAttemptContext(r) == "calling"

\* Under a context that is already done the call can only fail.
AttemptContext(r) == IF ctxDone[r] THEN "doomed" ELSE "calling"

\* Call fn for the k-th time.  A publish hands its event e to the writer, which
\* may have queued it even if the call fails.
StartAttempt(r, k, e) ==
  /\ attempt' = [attempt EXCEPT ![r] = k]
  /\ call' = [call EXCEPT ![r] = AttemptContext(r)]
  /\ tries' = [tries EXCEPT ![r][idx[r]] = @ + 1]
  /\ inflight' = IF Publishes(r) THEN inflight \cup {Message(r, k, e)} ELSE inflight

\* A mutation: a success overwrites the status that earlier failures left.
MutNodeDone(r, l) ==
  /\ local' = [local EXCEPT ![r] = [l EXCEPT !.status = "scored"]]
  /\ outcome' = [outcome EXCEPT ![r][idx[r]] = "ok"]
  /\ idx' = [idx EXCEPT ![r] = @ + 1]
  /\ call' = [call EXCEPT ![r] = "none"]

\* callWithResilience returned without an error: on to the next node.
NodeDone(r, l) ==
  /\ local' = [local EXCEPT ![r] = l]
  /\ outcome' = [outcome EXCEPT ![r][idx[r]] = "ok"]
  /\ idx' = [idx EXCEPT ![r] = @ + 1]
  /\ call' = [call EXCEPT ![r] = "none"]

\* The status after a failure the policy of the node tolerates: the scoring
\* loop, unlike the other two, leaves it alone.
StatusAfterFailure(r) ==
  IF stage[r] = "scoring" THEN local[r].status ELSE "degraded"

\* callWithResilience returned an error.
NodeFailed(r) ==
  /\ call' = [call EXCEPT ![r] = "none"]
  /\ IF NodeFailureHandled(CurrentNode(r))
     THEN /\ local' = [local EXCEPT ![r].status = StatusAfterFailure(r)]
          /\ outcome' = [outcome EXCEPT ![r][idx[r]] = "handled"]
          /\ idx' = [idx EXCEPT ![r] = @ + 1]
          /\ UNCHANGED answer
     ELSE /\ answer' = [answer EXCEPT ![r] = "failed"]
          /\ outcome' = [outcome EXCEPT ![r][idx[r]] = "aborted"]
          /\ UNCHANGED <<local, idx>>
-----------------------------------------------------------------------------
(* callWithResilience.                                                     *)

BeginCall(r) ==
  /\ In(r, "none") /\ Runnable(r)
  /\ CurrentNode(r).maxRetries >= 0
  /\ BuildEvent(r)
  /\ StartAttempt(r, 0, event'[r])
  /\ UNCHANGED <<env, stage, answer, cfg, idx, local, outcome, topic>>

\* With a negative max_retries the loop body never runs and (zero, nil) is
\* returned.
SkipAllAttempts(r) ==
  /\ In(r, "none") /\ Runnable(r)
  /\ CurrentNode(r).maxRetries < 0
  /\ NodeDone(r, AbsorbNil(local[r], CurrentNode(r).service))
  /\ UNCHANGED <<env, stage, answer, cfg, attempt, tries, kafka>>

\* A mutation: the writer does not wait for the broker.
MutAcknowledged(r) == TRUE

\* A publish returns without an error once the broker has the event.
Acknowledged(r) ==
  Publishes(r) => Message(r, attempt[r], event[r]) \in topic

\* fn answered without an error.
AttemptSucceeds(r) ==
  /\ In(r, "calling") /\ Acknowledged(r)
  /\ NodeDone(r, Absorb(local[r], claim[r], CurrentNode(r).service))
  /\ UNCHANGED <<env, stage, answer, cfg, attempt, tries, kafka>>

\* A mutation: one retry too many.
MutRetriesLeft(r) == attempt[r] <= CurrentNode(r).maxRetries

RetriesLeft(r) == attempt[r] < CurrentNode(r).maxRetries

\* fn failed or its timeout expired, and retries are left: wait retryBackoff.
AttemptFails(r) ==
  /\ In(r, "calling") \/ In(r, "doomed")
  /\ RetriesLeft(r)
  /\ call' = [call EXCEPT ![r] = "backoff"]
  /\ UNCHANGED <<env, stage, answer, cfg, idx, attempt, local, history, kafka>>

LastAttemptFails(r) ==
  /\ In(r, "calling") \/ In(r, "doomed")
  /\ ~RetriesLeft(r)
  /\ NodeFailed(r)
  /\ UNCHANGED <<env, stage, cfg, attempt, tries, kafka>>

\* A mutation: only the context ends the wait.
MutBackoffElapses(r) ==
  /\ In(r, "backoff") /\ ctxDone[r]
  /\ StartAttempt(r, attempt[r] + 1, event[r])
  /\ UNCHANGED <<env, stage, answer, cfg, idx, local, outcome, event, topic>>

\* A mutation: the attempt is not counted.
MutRepeatAttempt(r) ==
  /\ In(r, "backoff")
  /\ StartAttempt(r, attempt[r], event[r])
  /\ UNCHANGED <<env, stage, answer, cfg, idx, local, outcome, event, topic>>

\* The two cases of the select; when both are ready either may be taken.
BackoffElapses(r) ==
  /\ In(r, "backoff")
  /\ StartAttempt(r, attempt[r] + 1, event[r])
  /\ UNCHANGED <<env, stage, answer, cfg, idx, local, outcome, event, topic>>

BackoffCancelled(r) ==
  /\ In(r, "backoff") /\ ctxDone[r]
  /\ NodeFailed(r)
  /\ UNCHANGED <<env, stage, cfg, attempt, tries, kafka>>
-----------------------------------------------------------------------------
(* The end of a loop.                                                      *)

EndEnrichment(r) ==
  /\ At(r, "enrichment") /\ call[r] = "none" /\ ~AtNode(r)
  /\ stage' = [stage EXCEPT ![r] = "scoring"]
  /\ idx' = [idx EXCEPT ![r] = 1]
  /\ UNCHANGED <<env, answer, cfg, call, attempt, local, history, kafka>>

\* A mutation: a missing score response is not noticed.
MutUnscored(r) == FALSE

Unscored(r) == local[r].score = None

EndScoring(r) ==
  /\ At(r, "scoring") /\ call[r] = "none" /\ ~AtNode(r)
  /\ IF Unscored(r)
     THEN /\ answer' = [answer EXCEPT ![r] = "failed"]
          /\ UNCHANGED <<stage, idx>>
     ELSE /\ stage' = [stage EXCEPT ![r] = "publishing"]
          /\ idx' = [idx EXCEPT ![r] = 1]
          /\ UNCHANGED answer
  /\ UNCHANGED <<env, cfg, call, attempt, local, history, kafka>>

\* The result is built from the locals as they are now.
ReturnResult(r) ==
  /\ At(r, "publishing") /\ call[r] = "none" /\ ~AtNode(r)
  /\ answer' = [answer EXCEPT ![r] = "returned"]
  /\ UNCHANGED <<env, stage, cfg, idx, call, attempt, local, history, kafka>>
-----------------------------------------------------------------------------
(* The environment.                                                        *)

\* The caller's deadline passes, or the caller goes away.
CancelContext(r) ==
  /\ ~Ended(r) /\ ~ctxDone[r]
  /\ ctxDone' = [ctxDone EXCEPT ![r] = TRUE]
  /\ UNCHANGED <<disk, claim, stage, answer, cfg, idx, call, attempt, local, history, kafka>>

\* The Kafka writer flushes an event, whoever still waits for it...
Deliver(m) ==
  /\ m \in inflight
  /\ inflight' = inflight \ {m}
  /\ topic' = topic \cup {m}
  /\ UNCHANGED <<env, stage, answer, cfg, idx, call, attempt, local, history, event>>

\* ... or gives up on it.
Lose(m) ==
  /\ m \in inflight
  /\ inflight' = inflight \ {m}
  /\ UNCHANGED <<env, stage, answer, cfg, idx, call, attempt, local, history, event, topic>>

\* An operator replaces a DAG file.
EditConfig(p, f) ==
  /\ f # disk[p]
  /\ disk' = [disk EXCEPT ![p] = f]
  /\ UNCHANGED <<claim, ctxDone, stage, answer, cfg, idx, call, attempt, local, history, kafka>>

\* The steps of a run that need nothing but time: an attempt ends at its
\* timeout at the latest.
RunStep(r) ==
  \/ ReadConfig(r)
  \/ SkipNode(r)
  \/ BeginCall(r)
  \/ SkipAllAttempts(r)
  \/ AttemptSucceeds(r)
  \/ AttemptFails(r)
  \/ LastAttemptFails(r)
  \/ BackoffElapses(r)
  \/ BackoffCancelled(r)
  \/ EndEnrichment(r)
  \/ EndScoring(r)
  \/ ReturnResult(r)

Next ==
  \/ \E r \in Runs : RunStep(r)
  \/ \E r \in Runs : ResolveVersion(r)
  \/ \E r \in Runs : ResolveVersionFails(r)
  \/ \E r \in Runs : CancelContext(r)
  \/ \E m \in inflight : Deliver(m)
  \/ \E m \in inflight : Lose(m)
  \/ \E p \in Paths, f \in Files : EditConfig(p, f)

Spec == Init /\ [][Next]_vars

\* Deadlines that were set expire, an RPC whose context is done returns its
\* error, and the goroutine of a run is scheduled.  Nothing makes the version
\* lookup answer: it has no timeout of its own.
Fairness ==
  \A r \in Runs :
    /\ WF_vars(RunStep(r))
    /\ WF_vars(ResolveVersionFails(r) /\ ctxDone[r])
    /\ WF_vars(CancelContext(r) /\ claim[r].deadline)

FairSpec == Spec /\ Fairness
=============================================================================
