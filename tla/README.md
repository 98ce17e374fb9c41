# Verification of the insurance-claims fraud platform

TLA+ modules, TLC configurations and TLAPS proofs for the claim-scoring platform
in `src/`. The specifications are translated from the code; the documents of the
repository are only quoted where the code and a document disagree.

## 1. The system

A client posts a claim to the **claims gateway** (REST). The gateway validates
it, asks **tenant-config-svc** for the tenant's status, and calls
`ProcessClaim` of the **orchestration service** with a 5 s deadline. The
orchestration service loads a DAG file for (tenant, product, event type) and
runs it: enrichment nodes (**claimant-id-hashing-svc**,
**address-normalization-svc**, **policy-lookup-svc**), then a scoring node
(**model-service**), then a publish node that writes an event to the Kafka topic
`claims.realtime`. The answer carries a status (`scored` or `degraded`), the
normalized address, the score and the model version.

| component | state | operations | correctness |
|---|---|---|---|
| DAG executor (`executor.go`) | locals of each `Run`: status, enrichment results, score, position in the node list, attempt | `Run`, `callWithResilience`, `nodeFailureHandled` | failure policies and retries respected; status adds up; score never flattered; events and answer agree; every run ends |
| DAG configuration (`config.go`) | nodes of a parsed file | `EffectiveOnFailure`, `EnabledForTenant`, stage membership | unset policy is fail_fast; gating per tenant |
| DAG loader (`loader.go`) | none (reads the disk on every call) | `Load` | one file per run, version mismatch tolerated, errors end the run |
| Kafka publisher (`publisher.go`) | events batched in the kafka-go writer | `Publish`, `Close` | acknowledged means on the topic; late or lost events |
| model service (`scoring.go`) | none | `Score` | score in 0..1, missing features score as riskiest |
| hashing, address, policy services (Java) | fixture policies | `hash`, `normalize`, `lookup`; gRPC server lifecycle | deterministic answers; unknown is an answer, not an error |
| claims gateway (`claims.go`) | none | `SubmitClaim`, `resolveTenant` | inactive tenants refused before anything runs; one answer per request |
| tenant-config-svc (`store.go`) | tenants read once at start-up | `GetTenant`, `GetDagVersion` | answers from one consistent table |
| telemetry (`pkg/telemetry`) | context values, gRPC metadata | interceptors, `WarmUp` | tenant and correlation id reach every callee; start-up ends |
| gRPC clients (`internal/client`) | one channel per dependency | `Dial*` with `WarmUp`, one method per RPC | a process serves with warm connections, and starts also without them |
| `main` of every service | the process | dial, listen, fatal exit, signal | a launched process serves or is gone |
| Java server (`GrpcServerLifecycle`, `*GrpcService`) | server, `running`, the await thread, the logging context of each thread | `start`, `stop`, `isRunning`; the handlers | a listening process stays up; a signal ends it; log lines show their own call |

The hard behaviour: an attempt, its timeout, the caller's cancellation and the
backoff timer race in `callWithResilience`; a publish that timed out may still be
written later, also after a retry and after the answer; DAG files change under
running requests; failures of several nodes have to add up in one status; one
call in the chain (the version lookup) has no timeout; the time of timeouts,
backoffs and retries adds up over the nodes; processes come up in any order while
their connections flap; a process is stopped while its Kafka writer holds a
message or its calls hang; pooled threads are reused. `PROJECT.json` lists each
hazard at its line.

## 2. The modules

| module | what it models |
|---|---|
| `DagConfig` | nodes, policies, tenant gating and the three stages (`config.go`, helpers of `executor.go`) |
| `Scoring` | the rules of `Score`, in integer hundredths |
| `Enrichment` | what the hash, address and policy services answer |
| `Executor` | the state machine of `Run`, `Load`, `callWithResilience` and `Publish` for any number of concurrent runs |
| `ClaimOutcome` | the abstract promise of the orchestration service: one verdict, one answer, events that agree with both |
| `ExecutorProperties` | the properties of `Executor` and the refinement mapping to `ClaimOutcome` |
| `MCExecutor` | DAG files and claims for TLC |
| `ExecutorProofs` | theorems about `Executor`: typing, scores, events |
| `LedgerProofs` | theorems about what `Executor` did with every node: retries, accounts, publishing |
| `OutcomeProofs` | `Executor` implements `ClaimOutcome`; runs that are cut off |
| `ProgressProofs` | theorems about what a run of `Executor` has left to do and what its events may say; how far two of the findings reach |
| `Timing` | `callWithResilience` and `nodeTimeout` with a clock |
| `MCTiming` | the shipped DAG file, for TLC |
| `TimingProofs` | theorems about `Timing` |
| `Telemetry` | ids in contexts and in gRPC metadata, the two interceptors |
| `TenantConfigSvc` | the tenants file, the table read at start-up, `GetTenant`, `GetDagVersion`, restarts |
| `Platform` | `SubmitClaim` of the gateway composed with `TenantConfigSvc`, `Telemetry`, `ProcessClaim` and, in place of the DAG, `ClaimOutcome` |
| `PlatformProperties` | the properties of `Platform` |
| `MCPlatform` | tenants files and requests for TLC |
| `PlatformProofs` | theorems about `Platform` |
| `ServiceLifecycle` | the abstract promise of every process: it does not stay half started |
| `Startup` | `main` of the services, the `Dial` functions, `WarmUp`, the gRPC channel, the writer's batch at shutdown |
| `MCStartup` | a deployment with some of the services |
| `StartupProofs` | theorems about `Startup` |
| `JavaServer` | one Java service: the JVM, Spring's start and stop of the gRPC server, the handlers with their logging context |
| `JavaServerProofs` | theorems about `JavaServer` |

`Platform` is composed from `TenantConfigSvc`, `Telemetry` and `ClaimOutcome`;
`Executor` from `DagConfig`, `Scoring` and `Enrichment`, and it implements
`ClaimOutcome`. `Startup` and `JavaServer` both implement `ServiceLifecycle`, which
is also all there is to say about the start of the two services that neither dial
nor run in a JVM.

### Executor: how state and actions correspond to the code

* `stage` is the place in `Run`: `version` and `file` are the two halves of
  `Load`, then one value per loop over `cfg.Nodes`. `idx` is the loop variable,
  `local` the local variables, `cfg` the loaded file, `answer` whether and how
  `Run` returned. A successful answer is made of the locals, which no step changes
  after the return.
* `call` and `attempt` are the position in `callWithResilience`: `none` (not in
  it), `calling` (inside `fn`), `doomed` (inside an `fn` that was started under a
  context already done and so can only fail), `backoff` (in the select). A call
  that was out when the context ended may still have succeeded.
* `SkipAllAttempts` is the case of a negative `max_retries`: the loop body never
  runs and `(zero, nil)` is returned; `AbsorbNil` is what the nil-safe getters make
  of that.
* A failure with a tolerant policy degrades the run in the enrichment and the
  publishing loop, not in the scoring loop (`StatusAfterFailure`), as in the code.
* `event` is the event of the publish node at hand. `Run` builds it once, before
  `callWithResilience` (`BuildEvent`), so every attempt hands over the same one.
* `inflight` and `topic` model the kafka-go writer, which is external: an event is
  in flight from the start of a publish attempt, may be written (`Deliver`) or
  dropped (`Lose`) at any time, and the attempt succeeds only when the event is on
  the topic. A timed-out attempt leaves its event in flight. Events are identified
  by run, node and attempt, so the events of retries are distinct; copies made by
  the writer's internal retries are not told apart.
* `disk` holds one file per path; `EditConfig` lets an operator change it, remove
  it or break its YAML between any two steps.
* `outcome` and `tries` are kept for the properties only.
* What the three loops of `Run` have in common is one definition here. `Stages`,
  `InStage`, `Recognized` and `NodeFailed` are mapped to where it stands in the first
  loop; the other guards are at `executor.go:167` and `211`, the other case labels at
  129, 142, 171 and 215, the other error branches at 133, 150, 190 and 227.
  `StatusAfterFailure` is mapped to the branch at 190, the one that differs.

Abstractions: a text a service trims and case-folds is a record of what is left
after that and its original spelling; an address is the sequence of its
comma-separated parts, each of four kinds, which is what the parser can see; the
hash is injective; a timeout is the possibility that an attempt fails at any
time, together with the fairness that it ends; the DAG version is only logged by
the code and left out. The locals are set in `Init` rather than after `Load`;
nothing reads them in between.

### Platform: how state and actions correspond to the code

* `caller` is the place in `SubmitClaim`: `new`, `resolving` (in `resolveTenant`),
  `forwarding` (in `ProcessClaim`), `done`. `http` is the response. A direct caller
  of `ProcessClaim` (a console, another service) goes from `new` to `forwarding`
  and sends what metadata and payload it likes.
* `GetTenant` takes two steps: tenant-config-svc reads its table
  (`ServeGetTenant`), and the gateway handles the answer later, or its 2 s timeout
  first (`ResolveTenantFails`, which is also the error answer and the unreachable
  server; all three end in the same 403).
* `ForwardFails` is the error, the unreachable server and the 5 s timeout of
  `ProcessClaim`. It does not touch the run: a call already sent may still start,
  and a run goes on, scores and publishes after the 502.
* `run` is `none`, `sent` (the call is on its way), `loading`, `running`, `ended` or
  `lost`. Inside it, `Orchestration == INSTANCE ClaimOutcome` shares its variables
  with `Platform`: verdict, degradation, answer and events are steps of the abstract
  specification that the run `executor_refines_outcome` shows `Executor` to
  implement. `StopOrchestration` kills the process: its runs and unwritten events
  are gone, events on the topic stay.
* `call` and `runCtx` are the `ProcessClaim` request and the ids chosen from it;
  `hops` records the RPCs `GetTenant`, `ProcessClaim`, `GetDagVersion` and `Score` with
  their metadata, for the properties; those to the enrichment services are made under
  the same context as `Score` and are not recorded.
* A correlation id is named by the request it was made for (random ids differ).
  The fallback marker of `correlation.New` is not modelled: with the Go version of
  `go.mod`, `rand.Read` does not return an error.
* `EditTenants`, `StopTenantConfig` and `StartTenantConfig` may happen between any
  two steps. The table changes only on a start, and a file that cannot be loaded
  keeps the service down. When a tenant is listed twice, the last entry counts.

### Startup: how state and actions correspond to the code

* `proc` is the life of a process, `at` the `Dial` call its `main` is at. `Dials`
  gives the order of the calls; `OrchestrationDials` and `GatewayDials` are the
  ones in the code.
* `warmUp` is the place in `WarmUp`: before it (`dial`), at `GetState` (`check`), in
  `WaitForStateChange` (`wait`) with the state it was given in `seen`. `timer` is
  the context with the 5 s timeout. `TimesOut` is the branch that logs a warning and
  returns; it does not look at the connection again, and main goes on.
* `conn` is the connectivity state of each channel (external, grpc-go): it fails,
  backs off, becomes ready, is dropped to idle by itself. `WarmUp` calls `Connect`
  once, so a connection that is dropped to idle during the loop stays there, and
  the dial waits out its window.
* `Gone` is every end of a process: `log.Fatalf` and signals run no deferred call.
  `StartFails` is a `log.Fatalf` before the process serves, `ServeFails` the one after
  `Serve` has returned an error, which it need never do.
* `unsent` is a message in the batch of the Kafka writer of the orchestration
  service.

### JavaServer: how state and actions correspond to the code

* `main`, `server`, `running` and `awaitThread` are the main thread, the gRPC
  server, the field `running` and the thread `start` creates. The JVM (external)
  runs its shutdown hook on a signal (`Signal`) or when the last non-daemon thread
  is over (`LastThreadEnds`); Spring's hook waits for start-up to be over and then
  calls `stop` if `isRunning`.
* `stop` shuts the server down and does not wait, so calls under way may be cut by
  the end of the process (`JvmExits`).
* `call` and `mdc` are what a thread of the executor handles and the
  `correlation_id` of its logging context; `line` is the last line logged. `Throw`
  runs only the `finally` block.
* The three services have the same `GrpcServerLifecycle` and the same frame of a
  handler; a definition is mapped to one of the copies.

### Timing: how state and actions correspond to the code

* `now` is a clock, `due` the instant at which the timer of the attempt or of the
  backoff fires. `Elapse` passes time, never past `due`, and not once the context of
  the request is done, because every wait in `callWithResilience` selects on it or
  is made under a context derived from it.
* `Calls` are the nodes a run calls, in order; `allowed` adds up `NodeBudget` of the
  nodes begun. `max_retries` is a natural number here: a node with a negative one
  is not called and takes no time.
* The nodes are called one after the other, also those of the enrichment stage: the
  loop of `Run` is sequential, whatever the comment at `config.go:16` says.
* Time spent on the CPU or waiting for it is not counted, and a call is taken to
  return when its context is done, as gRPC and kafka-go do.

## 3. The runs

| run | what it shows |
|---|---|
| `executor_policies` | One run, six DAG files (the shipped one; two scorers and a fail-fast publisher; a mix of a gated node, an unknown service, an unknown policy, an unreachable dependency and two publishers; negative retries; no scorer; a small one with retries), four claims, one of them without a deadline, fair scheduling. Safety: `NoFlatteredScore`, `EventsAgreeWithAnswer`, `OnlyPublishFailuresDisagree` (consumers read `scored` where the caller is told `degraded` only over a publish that failed), `ScoredMeansPublished`, `AnswerAccountsForEveryNode`, `RetryBudgetKept`, `RunsDescend` (every step leaves a run less to do), `CutOffRunsNeverReturn`, `TypeOK`. Liveness: `BoundedRunsEnd`, `LoadedRunsEnd`. |
| `executor_refines_outcome` | Two runs interleaved over one file and one writer: `ImplementsClaimOutcome`. |
| `platform_gate` | One request of every kind, four tenants files and a broken one, both services stopped and restarted at any time: `RefusedLeavesNoTrace`, `TraceUnbroken`, `SuspendedStaysOut`, `UnconfiguredNeverScored`, `EverySubmissionAnswered`. |
| `platform_resubmit` | Two requests at once, of two claims, of one claim twice or with direct calls, with crashes of the orchestration service: `AnswerMatchesEvents`. |
| `run_budget` | The shipped DAG with a clock: `RunBudgetKept` (its worst case is 480 ms after the load, far below the 5 s of the gateway) and `CancelledRunsRetryOnce`. |
| `startup_any_order` | Three processes launched, stopped and failing in any order, with connections that flap: `WarmBeforeServing`, and `ImplementsLifecycle` with its liveness. |
| `java_service` | One Java service with two threads: `ListeningKeepsAlive`, `LinesShowTheirCall`, `SignalEndsProcess` also with hanging calls, `ImplementsLifecycle`. |
| `negative_retries` | **violated**: with `max_retries: -1` a node is reported successful without a call (`executor.go:258`). |
| `scorer_failure_hidden` | **violated**: a tolerated scorer failure does not degrade the result (`executor.go:194`). |
| `version_lookup_hangs` | **violated**: without a deadline, an unanswered `GetDagVersion` holds `ProcessClaim` forever (`loader.go:38`). |
| `correlation_from_payload` | **violated**: when metadata and payload name different correlation ids, `ProcessClaim` uses the payload's (`orchestration.go:24`). |
| `shutdown_loses_batch` | **violated**: the deferred `Close` of the publisher never runs, so a message in the writer's batch is lost when the service stops (`main.go:67`). |

A sixth disagreement has no run of its own. `config.go:16` says that nodes without
`depends_on` "run concurrently", and `docs/manual-test-cases.md:76` says "in parallel";
the first loop of `Run` (`executor.go:112`) calls them one after the other, as
`executor.go:58` and `docs/dag-request-flow.md:51` admit. `Executor` and `Timing` follow
the loop. With the shipped file the enrichment stage may take 300 ms where its slowest
node takes 100 ms, and the 480 ms of `run_budget` are the sum that follows from it: an
upper bound either way, but 280 ms if the nodes did run concurrently.

Bounds. Runs touch each other only through `disk`, `inflight` and `topic`; an
event names its run, and the disk is read in one step, so one run is enough for
the properties of a run and two for the interleaving. `max_retries` is at most 1
in the TLC instances, which already gives a first, a middle (retried) and a last
attempt on a node; -1 and 0 are present too. Every stage has, in some file, no
node, one node and several. The claims cover an active, a lapsed and a missing
policy and a complete, an incomplete and an empty address. Nothing is capped in
the actions: the state space is finite because the DAG files are.

In the platform runs two requests are enough for `AnswerMatchesEvents`, which
relates one answer to one event; the other properties are about one request and
the services around it. Two scores tell a wrong event from a right one. The
tenants files have the gateway's tenant active, onboarding, listed twice and
missing.

`startup_any_order` has tenant-config-svc, the orchestration service and the
gateway: a process without dials, one with one dial, and one with two dials, one of
them to a process that dials itself. `java_service` has two threads and two ids,
which is what it takes to see the id of another call. `run_budget` has a clock of
10 ms, which divides every timeout and backoff of the shipped file, and stops at
520 ms: `Instants` leaves room for a load of 40 ms before the slowest run.

Deadlock is checked, except in `run_budget`, where a run that is over has no steps
left. In the other runs a finished system still has steps (files are edited,
processes are launched again); that runs end is stated as liveness.

Fairness (`FairSpec`). `WF(RunStep(r))`: the goroutine of a run is scheduled, and
an attempt ends because `context.WithTimeout` bounds it. `WF` of the expiry of the
context only for claims that came with a deadline (the gateway sets one; a direct
gRPC call need not). `WF` of the failure of the version lookup only once the
context is done, because nothing else bounds that call. No fairness on delivery of
events, on answers of services or on edits. In `Platform`, `FairSpec` has weak
fairness of the handler of each request only: it is scheduled, and the two
`context.WithTimeout` expire. Nothing is assumed of the two services, which may
stay down or silent for ever.

In `Startup`, weak fairness of the steps of `main` up to `Serve` and of the timer, and strong fairness of the
branch of `WarmUp` that finds its context done: the select in `WaitForStateChange`
takes either case when the state changes at that moment, and the backoff of a
channel grows, so the state cannot change at every look for ever. Connections
need not ever be made, and a process that serves may do so for ever: `ServeFails` and
`Interrupt` may happen and need not. In `JavaServer`, weak fairness of the main thread and of the
shutdown hook; a call may hang for ever.

## 4. What is proved

`ExecutorProofs` holds for every set of runs and claims and every set of DAG
files (any node lists, policies, integers as `max_retries`). Assumptions: the
constants have their types, the markers `NoFile` and `BadYaml` are not files, and
`None` is not a score.

* `TypeCorrect` (`Spec => []TypeOK`). `TypeOK` is not inductive: that an event
  carries a score needs that the publishing stage always has one, and that an
  attempt is made for a node of the current stage. `TypeInv` adds `Shape`, which
  says this, that the event of a call under way is the one the locals give, and ties
  the histories to the loaded file.
* `ScoresNeverFlatter` (`Spec => []NoFlatteredScore`). The strengthening `Honest`
  says that the policy and address locals are the services' answers or the
  defaults; `DefaultsAreRiskiest` says that a default never scores lower than any
  real value; `LocalsChange` classifies how any step can change the locals.
* `EventsAgree` (`Spec => []EventsAgreeWithAnswer`). `PublishingPersists`: a
  publishing run stays so, its score is fixed and degraded is final. `NewEvents`: a
  step adds no event but the current one of a publishing run.

`PlatformProofs` holds for any requests, submissions, tenants files and scores,
assuming that a correlation id is not the empty string.

* `RefusalsAreFinal` (`Spec => []RefusedLeavesNoTrace`). The property alone does not
  exclude a refused request that is still being forwarded; `GateInv` adds that a
  request not forwarded has no run, that a refused one is done, and that events
  come from runs.
* `TraceNeverBreaks` (`Spec => []TraceUnbroken`). `TraceInv` says where the ids of
  each recorded RPC come from, that the call of a submission is the one the gateway
  makes, and that a run keeps the ids of its call; `FirstOfValues`, `GatewayContexts`,
  `RunContexts` and `GatewayIDs` are the facts about the interceptors it needs.

* `AnswersFindTheirEvents` (`Spec => []AnswerMatchesEvents`). `IdInv`: the id of a
  submission is its own, and that of a direct call is not one the gateway made
  (assumption `DirectIDsAssumption`, which is about the environment: the gateway tells
  its client the id in the response, and nothing in the code keeps that client from
  sending it again in a direct call, whose events would then be found under the same
  id);
  `VerdictInv`: events and the reply carry the one verdict; `CopyInv`: the gateway
  copies the reply.
* `InactiveTenantsStayOut` (`Spec => SuspendedStaysOut`) and `UnconfiguredStaysUnscored`
  (`Spec => UnconfiguredNeverScored`). Both say that what holds of tenants.yaml and
  of the loaded table from some moment on keeps a request out from then on, so they
  rest on an invariant under a hypothesis: `KeptOut` (the request is not forwarded
  and no answer that says active is on its way) and `Unscored` (the request
  has no score, no result and no event, and would have to load a DAG to get them) are kept by every step in which the hypothesis still
  holds. `EarlyInv` gives the start: a new request has no lookup, run or event yet.
* `OnlyTwoIDsDisagree`: how far the finding of `correlation_from_payload` reaches. It
  takes a direct caller that sends two different ids.

`LedgerProofs` rests on `EveryStepMoves`: seen from one run, every step is one of
nine moves. `OneStage` says that a node is called in one stage only, so its entry
in the histories is written in one pass of one loop.

* `RetryBudgets` (`Spec => []RetryBudgetKept`), for every integer `max_retries`. The
  invariant `RetryInv` adds that a node not reached has no attempts (`Fresh`), that
  the attempts of the node at hand are its attempt counter (`Counted`), and that a
  node given up has spent them (`Spent`).
* `AnswersAccount` (`Spec => []AnswerAccountsForEveryNode`). `AccountInv`: nodes the
  loops are past are settled (`Settled`), the status is the tally of the failures so
  far (`Tallied`), and a run starts clean and returns after its last node (`Placed`).
* `ScoredIsPublished` (`Spec => []ScoredMeansPublished`). `Sent`: a publish node that
  is settled as successful in a run still `scored` has its event on the topic.

`OutcomeProofs`:

* `ExecutorImplements` (`Spec => ImplementsClaimOutcome`): the whole refinement that
  `Platform` relies on when it uses `ClaimOutcome` in place of the DAG, since
  `ClaimOutcome` has no fairness. Each step of a run, of the writer or of the
  environment is an abstract step or a stutter.
* `CutOffIsFinal` (`Spec => CutOffRunsNeverReturn`): `CutOff` is stable, because later
  attempts are doomed.

`ProgressProofs`, again over the moves of `LedgerProofs`:

* `RunsAlwaysDescend` (`Spec => RunsDescend`). `Left` is what a run still has to do:
  its stages, the nodes of its loop, the attempts and backoffs of its call. It is made
  of natural numbers because a loop stops one past the last node (`WithinLoop`) and an
  attempt counter is within its budget (`Counted`), gets lexicographically smaller with
  every step of the run, and is left alone by other runs, callers, the writer and edits
  of the file. This is the part of `LoadedRunsEnd` that does not speak of fairness, for
  every DAG file: a run that is scheduled and whose attempts end cannot go on for ever.
* `DisagreementsAreFailedPublishes` (`Spec => []OnlyPublishFailuresDisagree`). `Issued`:
  an event comes from a node the publishing loop has reached, and says what its run says
  unless that node or a later one has failed since (`Excused`). It needs that only a
  failure changes the status of a publishing run (`PublishingMoves`), that the node it
  strikes is not before the one of the event, and that the failure is never written over
  (`Fresh`).
* `OnlyNegativeRetriesSkipCalls` and `OnlyScorersFailSilently`: how far the findings of
  `negative_retries` and `scorer_failure_hidden` reach. A node succeeds without a call
  exactly if its `max_retries` is negative; a failure that leaves the status at `scored`
  is that of a scorer, and another scorer succeeded (`WitnessInv`).

`TimingProofs`, for every DAG, every timeout, every set of instants:

* `BudgetsHold` (`Spec => []RunBudgetKept`). The invariant `Scheduled` says that the
  timer never reaches past what is left of the budget of the node at hand.
* `CancelledRetries` (`Spec => []CancelledRunsRetryOnce`). `LastRetry`: once the
  context is done, a backoff begun later cannot elapse.
* `RunsEndInTime`: the bound of `BudgetsHold` grows as nodes are begun; this one is the
  sum over the whole file. What is allowed so far and the budgets still to come always
  add up to it (`TotalTime`). The sum is given as a function `R` with
  `BudgetsFrom(R)`, its recurrence, as a sum over a sequence of any length would take an
  induction over data.
* `ShippedRunsEndInTime`: for the shipped file the sum is 480 ms, whatever the clock.

`StartupProofs`, for every deployment:

* `ServesWarm` (`Spec => []WarmBeforeServing`). `Warm`: every dial main is past, every
  ready connection and every expired timer stand for a dial that is warm.
* `LifecycleSimulated`: every step is a step of `ServiceLifecycle` or leaves the phases
  alone, the safety half of `ImplementsLifecycle`.

`JavaServerProofs`, for any number of threads and ids:

* `StaysAlive` (`ListeningKeepsAlive`; a listening server has its thread blocked) and
  `NoStaleIds` (`LinesShowTheirCall`; the logging context of a thread is that of its
  call).
* `JavaLifecycleSimulated`: the safety half of `ImplementsLifecycle`. `LifeInv` says that
  a process that is down has no server and no shutdown under way, without which a
  launch could go straight to serving.

Only model-checked, because liveness under fairness is out of the prover's reach:
`BoundedRunsEnd`, `LoadedRunsEnd`, `EverySubmissionAnswered`, `SignalEndsProcess` and the
fairness half of both `ImplementsLifecycle`. Every other property of a passing run is
the statement of a theorem. The five properties the code violates are not theorems, of
course; three of the theorems say how far the violations reach.

## 5. Not modelled, and what is left

Left to do: `AddressNormalizer` against a reference definition over all short
addresses; a crash of the gateway together with its requests.

Not modelled:

* the version of a DAG (`loader.go:54`): it is compared for a log line only, and no
  state, answer or event depends on it;
* duplicates made inside the kafka-go writer, which is external;
* `Healthz`, which keeps no state; logging and its wording; generated protobuf code;
  Spring wiring beyond start and stop;
* scripts and Docker files: process management of a development machine. That
  processes are launched and stopped in any order is part of `Startup`.

A note without a property: the hashing service answers an empty hash, without an
error, for a blank claimant name, which the gateway lets through, although
`DECISIONS.md:214` says that the hash is guaranteed to exist. Nothing in a run
depends on it, as `Score` does not read the hash.
