------------------------------ MODULE Platform ------------------------------
(***************************************************************************)
(* The path of a claim through the platform: the REST handler of the       *)
(* claims gateway, tenant-config-svc, and the orchestration service with   *)
(* what it promises (ClaimOutcome) in place of its DAG.  A request comes   *)
(* through the gateway, or from a console or another service straight to   *)
(* ProcessClaim.  The processes are only connected by RPCs, each of which  *)
(* may fail or time out at its caller while its server goes on.            *)
(***************************************************************************)
EXTENDS Telemetry, TenantConfigSvc

CONSTANTS
  Requests,      \* the requests clients make
  Submissions,   \* what a request may contain
  Verdicts,      \* the scores
  NoVerdict,     \* no score yet
  NoAnswer       \* no answer to GetTenant yet

\* A correlation id is named by the request it was made for.
ASSUME RequestsAssumption == Unset \notin Requests

\* Of a REST request, the method and the body as far as the handler tells them
\* apart; a well-formed body has its required fields.
RestSubmission == [via: {"rest"}, form: {"post", "otherMethod", "malformed", "incomplete"},
                   claimID: STRING, product: STRING]

GrpcSubmission == [via: {"grpc"}, claimID: STRING, product: STRING, correlationID: STRING,
                   metadata: [correlationID: Seq(STRING), tenantID: Seq(STRING)]]

ASSUME SubmissionsAssumption ==
  \A s \in Submissions : s \in RestSubmission \/ s \in GrpcSubmission

\* About the environment: direct callers make up their own ids.  The gateway returns
\* its ids to its clients, and the code does not keep them from being used again.
ASSUME DirectIDsAssumption ==
  \A s \in Submissions : s.via # "rest" =>
    /\ s.correlationID \notin Requests
    /\ firstValue(s.metadata.correlationID) \notin Requests

hardcodedTenantID == "acme_insurance"

VARIABLES
  submission,   \* request -> what it contains
  caller,       \* request -> where the gateway handler, or the direct caller, is
  tenantStatus, \* request -> what tenant-config-svc answered to GetTenant
  http,         \* request -> the response of the gateway
  call,         \* request -> the ProcessClaim call: its metadata and payload id
  run,          \* request -> where ProcessClaim is
  runCtx,       \* request -> the context Run works under
  orchestrating, \* the orchestration process is up
  hops,         \* the RPCs made on behalf of requests (kept for the properties)
  verdict, degraded, reply, events

Orchestration == INSTANCE ClaimOutcome

gatewayVars == <<submission, caller, tenantStatus, http, call>>
runVars     == <<run, runCtx, orchestrating, verdict, degraded, reply, events>>

vars == <<submission, caller, tenantStatus, http, call, run, runCtx, orchestrating, hops,
          verdict, degraded, reply, events, tenantsFile, serving, byID>>

\* A mutation: the fallback for a failing random source, always.
MutNew(q) == "correlation-id-unavailable"

\* correlation.New: random ids of different requests differ.  (In the Go version
\* the module asks for, rand.Read never returns an error.)
New(q) == q

NoCall == [metadata |-> OutgoingMetadata(Background), correlationID |-> Unset]

Unanswered == [code |-> 0]
Response(code) == [code |-> code]

Init ==
  /\ InitTenants
  /\ Orchestration!Init
  /\ submission \in [Requests -> Submissions]
  /\ caller = [q \in Requests |-> "new"]
  /\ tenantStatus = [q \in Requests |-> NoAnswer]
  /\ http = [q \in Requests |-> Unanswered]
  /\ call = [q \in Requests |-> NoCall]
  /\ run = [q \in Requests |-> "none"]
  /\ runCtx = [q \in Requests |-> Background]
  /\ orchestrating = TRUE
  /\ hops = {}

Rest(q) == submission[q].via = "rest"

\* Every RPC carries the metadata UnaryClientInterceptor makes of its context.
Hop(q, method, ctx) == [request |-> q, method |-> method, metadata |-> OutgoingMetadata(ctx)]
-----------------------------------------------------------------------------
(* SubmitClaim of the gateway.                                             *)

Respond(q, response) ==
  /\ http' = [http EXCEPT ![q] = response]
  /\ caller' = [caller EXCEPT ![q] = "done"]

\* 405, or 400 for a body that does not parse or lacks a required field.
RejectSubmission(q) ==
  /\ caller[q] = "new" /\ Rest(q) /\ submission[q].form # "post"
  /\ Respond(q, Response(IF submission[q].form = "otherMethod" THEN 405 ELSE 400))
  /\ UNCHANGED <<submission, tenantStatus, call, runVars, hops, tenantVars>>

\* The context of the request once it has its correlation id.
RequestContext(q) == WithCorrelationID(Background, New(q))

\* resolveTenant calls GetTenant.
AcceptSubmission(q) ==
  /\ caller[q] = "new" /\ Rest(q) /\ submission[q].form = "post"
  /\ caller' = [caller EXCEPT ![q] = "resolving"]
  /\ hops' = hops \cup {Hop(q, "GetTenant", RequestContext(q))}
  /\ UNCHANGED <<submission, tenantStatus, http, call, runVars, tenantVars>>

\* The server side of GetTenant; the answer is then on its way.
ServeGetTenant(q) ==
  /\ caller[q] = "resolving" /\ tenantStatus[q] = NoAnswer /\ serving
  /\ tenantStatus' = [tenantStatus EXCEPT ![q] = GetTenant(hardcodedTenantID)]
  /\ UNCHANGED <<submission, caller, http, call, runVars, hops, tenantVars>>

\* A mutation: the handler goes on after it has written the 403.
MutResolveTenantFails(q) ==
  /\ caller[q] = "resolving"
  /\ http' = [http EXCEPT ![q] = Response(403)]
  /\ caller' = [caller EXCEPT ![q] = "forwarding"]
  /\ run' = [run EXCEPT ![q] = "sent"]
  /\ UNCHANGED <<submission, tenantStatus, call, runCtx, orchestrating, hops,
                 verdict, degraded, reply, events, tenantVars>>

\* A mutation: GetTenant is called without a timeout.
MutResolveWithoutTimeout(q) ==
  /\ caller[q] = "resolving" /\ tenantStatus[q] = NotFound
  /\ Respond(q, Response(403))
  /\ UNCHANGED <<submission, tenantStatus, call, runVars, hops, tenantVars>>

\* GetTenant answered NotFound, could not be reached, or took more than 2 s.
ResolveTenantFails(q) ==
  /\ caller[q] = "resolving"
  /\ Respond(q, Response(403))
  /\ UNCHANGED <<submission, tenantStatus, call, runVars, hops, tenantVars>>

Resolved(q) == caller[q] = "resolving" /\ tenantStatus[q] \notin {NoAnswer, NotFound}

\* A mutation: only the status of the second tenant of tenants.yaml is refused.
MutActive(status) == status # "suspended"

Active(status) == status = "active"

RefuseTenant(q) ==
  /\ Resolved(q) /\ ~Active(tenantStatus[q])
  /\ Respond(q, Response(403))
  /\ UNCHANGED <<submission, tenantStatus, call, runVars, hops, tenantVars>>

GatewayContext(q) == WithTenantID(RequestContext(q), hardcodedTenantID)

\* The correlation id goes both into the metadata and into the claim.
GatewayCall(q) == [metadata      |-> OutgoingMetadata(GatewayContext(q)),
                   correlationID |-> New(q)]

\* The tenant is active: call ProcessClaim.
ForwardClaim(q) ==
  /\ Resolved(q) /\ Active(tenantStatus[q])
  /\ call' = [call EXCEPT ![q] = GatewayCall(q)]
  /\ hops' = hops \cup {Hop(q, "ProcessClaim", GatewayContext(q))}
  /\ caller' = [caller EXCEPT ![q] = "forwarding"]
  /\ run' = [run EXCEPT ![q] = "sent"]
  /\ UNCHANGED <<submission, tenantStatus, http, runCtx, orchestrating,
                 verdict, degraded, reply, events, tenantVars>>

\* ProcessClaim returned an error, could not be reached, or took more than 5 s.
\* Its server may not know yet, or not stop.
ForwardFails(q) ==
  /\ caller[q] = "forwarding" /\ Rest(q)
  /\ Respond(q, Response(502))
  /\ UNCHANGED <<submission, tenantStatus, call, runVars, hops, tenantVars>>

\* The ProcessClaimResponse of the run, translated field by field.
AnswerClaim(q) ==
  /\ caller[q] = "forwarding" /\ Rest(q) /\ reply[q].kind = "result"
  /\ Respond(q, [code          |-> 200,
                 claimID       |-> submission[q].claimID,
                 correlationID |-> runCtx[q].correlationID,
                 status        |-> reply[q].status,
                 score         |-> reply[q].score])
  /\ UNCHANGED <<submission, tenantStatus, call, runVars, hops, tenantVars>>

\* A caller of ProcessClaim other than the gateway sends what it likes...
CallDirectly(q) ==
  /\ caller[q] = "new" /\ ~Rest(q)
  /\ call' = [call EXCEPT ![q] = [metadata      |-> submission[q].metadata,
                                  correlationID |-> submission[q].correlationID]]
  /\ caller' = [caller EXCEPT ![q] = "forwarding"]
  /\ run' = [run EXCEPT ![q] = "sent"]
  /\ UNCHANGED <<submission, tenantStatus, http, runCtx, orchestrating, hops,
                 verdict, degraded, reply, events, tenantVars>>
-----------------------------------------------------------------------------
(* The orchestration service.                                              *)

\* ProcessClaim takes the tenant from the metadata, and the correlation id from
\* the claim or, if it has none, from the metadata.
CorrelationID(c) ==
  IF c.correlationID # Unset THEN c.correlationID
  ELSE IncomingContext(c.metadata).correlationID

TenantID(c) == IncomingContext(c.metadata).tenantID

\* A mutation: Run works under the context it was called with.
MutRunContext(c) == IncomingContext(c.metadata)

\* Run puts the two ids it was given into its context.
RunContext(c) ==
  WithTenantID(WithCorrelationID(IncomingContext(c.metadata), CorrelationID(c)), TenantID(c))

\* The response and the event carry the ids of ProcessClaim, the RPCs of the run
\* those of its context; runCtx keeps the former.
ProcessClaim(q) ==
  /\ run[q] = "sent" /\ orchestrating
  /\ run' = [run EXCEPT ![q] = "loading"]
  /\ runCtx' = [runCtx EXCEPT ![q] = [correlationID |-> CorrelationID(call[q]),
                                      tenantID      |-> TenantID(call[q])]]
  /\ hops' = hops \cup {Hop(q, "GetDagVersion", RunContext(call[q]))}
  /\ UNCHANGED <<gatewayVars, orchestrating, verdict, degraded, reply, events, tenantVars>>

\* The call never reaches the server.
LoseCall(q) ==
  /\ run[q] = "sent"
  /\ run' = [run EXCEPT ![q] = "lost"]
  /\ UNCHANGED <<gatewayVars, runCtx, orchestrating, hops, verdict, degraded, reply, events,
                 tenantVars>>

\* Loader.Load resolved the version and read the file.
LoadDag(q) ==
  /\ run[q] = "loading"
  /\ serving /\ HasDagVersion(runCtx[q].tenantID, submission[q].product)
  /\ run' = [run EXCEPT ![q] = "running"]
  /\ UNCHANGED <<gatewayVars, runCtx, orchestrating, hops, verdict, degraded, reply, events,
                 tenantVars>>

\* The run calls the model and has its verdict.
ScoreClaim(q, v) ==
  /\ run[q] = "running"
  /\ Orchestration!Settle(q, v)
  /\ hops' = hops \cup {Hop(q, "Score", RunContext(call[q]))}
  /\ UNCHANGED <<gatewayVars, run, runCtx, orchestrating, tenantVars>>

DegradeClaim(q) ==
  /\ run[q] = "running"
  /\ Orchestration!Degrade(q)
  /\ UNCHANGED <<gatewayVars, run, runCtx, orchestrating, hops, tenantVars>>

\* Also after the run has ended, from the batch of the Kafka writer.
PublishEvent(q, s) ==
  /\ run[q] \in {"running", "ended"}
  /\ Orchestration!Emit(q, s)
  /\ UNCHANGED <<gatewayVars, run, runCtx, orchestrating, hops, tenantVars>>

EndRun(q) ==
  /\ \/ run[q] = "running" /\ Orchestration!Answer(q)
     \/ run[q] \in {"loading", "running"} /\ Orchestration!Refuse(q)
  /\ run' = [run EXCEPT ![q] = "ended"]
  /\ UNCHANGED <<gatewayVars, runCtx, orchestrating, hops, tenantVars>>

\* The process is killed: its runs, and the events it has not written, are gone.
StopOrchestration ==
  /\ orchestrating
  /\ orchestrating' = FALSE
  /\ run' = [q \in Requests |-> IF run[q] \in {"loading", "running", "ended"}
                                THEN "lost" ELSE run[q]]
  /\ UNCHANGED <<gatewayVars, runCtx, hops, verdict, degraded, reply, events, tenantVars>>

\* The service serves again; how it gets there is in Startup.
StartOrchestration ==
  /\ ~orchestrating
  /\ orchestrating' = TRUE
  /\ UNCHANGED <<gatewayVars, run, runCtx, hops, verdict, degraded, reply, events, tenantVars>>
-----------------------------------------------------------------------------
\* What the handler of the gateway does about a request.
HandlerStep(q) ==
  \/ RejectSubmission(q)
  \/ AcceptSubmission(q)
  \/ ResolveTenantFails(q)
  \/ RefuseTenant(q)
  \/ ForwardClaim(q)
  \/ ForwardFails(q)
  \/ AnswerClaim(q)

OrchestrationStep(q) ==
  \/ ProcessClaim(q)
  \/ LoseCall(q)
  \/ LoadDag(q)
  \/ \E v \in Verdicts : ScoreClaim(q, v)
  \/ DegradeClaim(q)
  \/ \E s \in Orchestration!Statuses : PublishEvent(q, s)
  \/ EndRun(q)

Next ==
  \/ \E q \in Requests : HandlerStep(q)
  \/ \E q \in Requests : ServeGetTenant(q)
  \/ \E q \in Requests : CallDirectly(q)
  \/ \E q \in Requests : OrchestrationStep(q)
  \/ StopOrchestration
  \/ StartOrchestration
  \/ TenantConfigNext /\ UNCHANGED <<gatewayVars, runVars, hops>>

Spec == Init /\ [][Next]_vars

\* The handler of a request is scheduled, and its two timeouts expire.
FairSpec == Spec /\ \A q \in Requests : WF_vars(HandlerStep(q))
=============================================================================
