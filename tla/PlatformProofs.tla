--------------------------- MODULE PlatformProofs ---------------------------
(***************************************************************************)
(* Theorems about the path of a claim, for any requests, submissions,      *)
(* tenants files and scores.                                               *)
(***************************************************************************)
EXTENDS PlatformProperties, TLAPS

Places   == {"new", "resolving", "forwarding", "done"}
RunPlaces == {"none", "sent", "loading", "running", "ended", "lost"}

Shape ==
  /\ caller \in [Requests -> Places]
  /\ run \in [Requests -> RunPlaces]
  /\ DOMAIN http = Requests

\* A request the gateway has not forwarded has no run, one it has refused never
\* will, and events come from runs.
GateInv ==
  /\ Shape
  /\ \A q \in Requests :
       /\ caller[q] \in {"new", "resolving"} => run[q] = "none" /\ http[q].code = 0
       /\ http[q].code \in {400, 403, 405} => caller[q] = "done" /\ run[q] = "none"
  /\ \A e \in events : e.request \in Requests /\ run[e.request] # "none"

\* The gate invariant holds initially.
LEMMA GateInit == Init => GateInv
  BY DEF Init, GateInv, Shape, Places, RunPlaces, Unanswered, Orchestration!Init

\* A step of the handler of the gateway.
LEMMA GateHandler ==
  ASSUME GateInv, NEW q \in Requests, HandlerStep(q)
  PROVE  GateInv'
<1> USE DEF GateInv, Shape, Places, RunPlaces
<1>1. CASE RejectSubmission(q)
  BY <1>1 DEF RejectSubmission, Respond, Response, runVars
<1>2. CASE AcceptSubmission(q)
  BY <1>2 DEF AcceptSubmission, runVars
<1>3. CASE ResolveTenantFails(q)
  BY <1>3 DEF ResolveTenantFails, Respond, Response, runVars
<1>4. CASE RefuseTenant(q)
  BY <1>4 DEF RefuseTenant, Resolved, Respond, Response, runVars
<1>5. CASE ForwardClaim(q)
  BY <1>5 DEF ForwardClaim, Resolved
<1>6. CASE ForwardFails(q)
  BY <1>6 DEF ForwardFails, Respond, Response, runVars
<1>7. CASE AnswerClaim(q)
  BY <1>7 DEF AnswerClaim, Respond, runVars
<1> QED
  BY <1>1, <1>2, <1>3, <1>4, <1>5, <1>6, <1>7 DEF HandlerStep

\* A step of the orchestration service for one request: a run only goes on, and
\* publishes only about itself.
LEMMA GateOrchestration ==
  ASSUME GateInv, NEW q \in Requests, OrchestrationStep(q)
  PROVE  GateInv'
<1> USE DEF GateInv, Shape, Places, RunPlaces, gatewayVars
<1>1. CASE ProcessClaim(q)
  BY <1>1 DEF ProcessClaim
<1>2. CASE LoseCall(q)
  BY <1>2 DEF LoseCall
<1>3. CASE LoadDag(q)
  BY <1>3 DEF LoadDag
<1>4. CASE \E v \in Verdicts : ScoreClaim(q, v)
  BY <1>4 DEF ScoreClaim, Orchestration!Settle
<1>5. CASE DegradeClaim(q)
  BY <1>5 DEF DegradeClaim, Orchestration!Degrade
<1>6. CASE \E s \in Orchestration!Statuses : PublishEvent(q, s)
  BY <1>6 DEF PublishEvent, Orchestration!Emit
<1>7. CASE EndRun(q)
  BY <1>7 DEF EndRun, Orchestration!Answer, Orchestration!Refuse
<1> QED
  BY <1>1, <1>2, <1>3, <1>4, <1>5, <1>6, <1>7 DEF OrchestrationStep

\* Every step keeps the gate invariant.
LEMMA GateStep == GateInv /\ [Next]_vars => GateInv'
<1> SUFFICES ASSUME GateInv, [Next]_vars PROVE GateInv'
  OBVIOUS
<1> USE DEF GateInv, Shape, Places, RunPlaces
<1>1. CASE \E q \in Requests : HandlerStep(q)
  BY <1>1, GateHandler
<1>2. CASE \E q \in Requests : ServeGetTenant(q)
  BY <1>2 DEF ServeGetTenant, runVars
<1>3. CASE \E q \in Requests : CallDirectly(q)
  BY <1>3 DEF CallDirectly
<1>4. CASE \E q \in Requests : OrchestrationStep(q)
  BY <1>4, GateOrchestration
<1>5. CASE StopOrchestration
  BY <1>5 DEF StopOrchestration, gatewayVars
<1>6. CASE StartOrchestration
  BY <1>6 DEF StartOrchestration, gatewayVars
<1>7. CASE TenantConfigNext /\ UNCHANGED <<gatewayVars, runVars, hops>>
  BY <1>7 DEF gatewayVars, runVars
<1>8. CASE UNCHANGED vars
  BY <1>8 DEF vars
<1> QED
  BY <1>1, <1>2, <1>3, <1>4, <1>5, <1>6, <1>7, <1>8 DEF Next

\* A refused submission leaves no run and no event behind, whatever the timing of
\* the tenant lookup and of its timeout (SubmitClaim).
THEOREM RefusalsAreFinal == Spec => []RefusedLeavesNoTrace
<1>1. GateInv => RefusedLeavesNoTrace
  BY DEF GateInv, RefusedLeavesNoTrace, EventsOf
<1> QED
  BY GateInit, GateStep, <1>1, PTL DEF Spec
-----------------------------------------------------------------------------
(* Trace ids.                                                              *)

\* What an interceptor sends is what the other one finds.
LEMMA FirstOfValues == ASSUME NEW id PROVE firstValue(Values(id)) = id
  BY DEF firstValue, Values

\* The contexts of the gateway.
LEMMA GatewayContexts ==
  ASSUME NEW q \in Requests
  PROVE  /\ RequestContext(q) = [correlationID |-> q, tenantID |-> Unset]
         /\ GatewayContext(q) = [correlationID |-> q, tenantID |-> hardcodedTenantID]
  BY DEF RequestContext, GatewayContext, WithCorrelationID, WithTenantID, Background, New

\* The context of a run has the ids ProcessClaim chose, whatever was there before.
LEMMA RunContexts ==
  ASSUME NEW c
  PROVE  RunContext(c) = [correlationID |-> CorrelationID(c), tenantID |-> TenantID(c)]
<1>1. IncomingContext(c.metadata) = [correlationID |-> firstValue(c.metadata.correlationID),
                                     tenantID      |-> firstValue(c.metadata.tenantID)]
  BY DEF IncomingContext, WithCorrelationID, WithTenantID, Background
<1> QED
  BY <1>1 DEF RunContext, WithCorrelationID, WithTenantID

\* ProcessClaim chooses the ids the gateway sent.
LEMMA GatewayIDs ==
  ASSUME NEW q \in Requests
  PROVE  /\ CorrelationID(GatewayCall(q)) = q
         /\ TenantID(GatewayCall(q)) = hardcodedTenantID
<1>1. GatewayCall(q).correlationID = q /\ q # Unset
  BY RequestsAssumption DEF GatewayCall, New
<1>2. CorrelationID(GatewayCall(q)) = q
  BY <1>1 DEF CorrelationID
<1>3. GatewayCall(q).metadata.tenantID = Values(hardcodedTenantID)
  BY GatewayContexts DEF GatewayCall, OutgoingMetadata
<1>4. TenantID(GatewayCall(q)) = firstValue(GatewayCall(q).metadata.tenantID)
  BY DEF TenantID, IncomingContext, WithCorrelationID, WithTenantID, Background
<1> QED
  BY <1>2, <1>3, <1>4, FirstOfValues

\* An RPC on record and where its ids come from.
HopOK(h) ==
  LET q == h.request IN
  /\ q \in Requests
  /\ \/ /\ h.method = "GetTenant" /\ Rest(q)
        /\ h.metadata = OutgoingMetadata(RequestContext(q))
     \/ /\ h.method = "ProcessClaim" /\ Rest(q)
        /\ h.metadata = OutgoingMetadata(GatewayContext(q))
     \/ /\ h.method \in {"GetDagVersion", "Score"} /\ run[q] \notin {"none", "sent"}
        /\ h.metadata = OutgoingMetadata(RunContext(call[q]))

Tracing(q) == run[q] \in {"loading", "running", "ended"}

\* The ids a run answers and publishes with are those of its call, and the call of
\* a submission is the one the gateway makes.
TraceInv ==
  /\ GateInv
  /\ DOMAIN call = Requests /\ DOMAIN runCtx = Requests
  /\ \A q \in Requests :
       /\ caller[q] = "resolving" => Rest(q)
       /\ Rest(q) /\ run[q] # "none" => call[q] = GatewayCall(q)
       /\ Tracing(q) => runCtx[q] = [correlationID |-> CorrelationID(call[q]),
                                     tenantID      |-> TenantID(call[q])]
  /\ \A h \in hops : HopOK(h)

\* The trace invariant gives the property.
LEMMA TraceImplies == TraceInv => TraceUnbroken
<1> SUFFICES ASSUME TraceInv, NEW h \in hops, Tracing(h.request)
             PROVE  /\ firstValue(h.metadata.correlationID) = runCtx[h.request].correlationID
                    /\ h.method # "GetTenant" =>
                         firstValue(h.metadata.tenantID) = runCtx[h.request].tenantID
  BY DEF TraceUnbroken, Tracing
<1> DEFINE q == h.request
<1>1. q \in Requests /\ HopOK(h)
  BY DEF TraceInv, HopOK
<1>2. runCtx[q].correlationID = CorrelationID(call[q]) /\ runCtx[q].tenantID = TenantID(call[q])
  BY <1>1 DEF TraceInv
<1>3. Rest(q) => runCtx[q].correlationID = q /\ runCtx[q].tenantID = hardcodedTenantID
  BY <1>1, <1>2, GatewayIDs DEF TraceInv, Tracing
<1>4. ASSUME NEW ctx, h.metadata = OutgoingMetadata(ctx)
      PROVE  /\ firstValue(h.metadata.correlationID) = ctx.correlationID
             /\ firstValue(h.metadata.tenantID) = ctx.tenantID
  BY <1>4, FirstOfValues DEF OutgoingMetadata
<1>5. CASE h.method = "GetTenant" /\ Rest(q) /\ h.metadata = OutgoingMetadata(RequestContext(q))
  BY <1>1, <1>3, <1>4, <1>5, GatewayContexts
<1>6. CASE Rest(q) /\ h.metadata = OutgoingMetadata(GatewayContext(q))
  BY <1>1, <1>3, <1>4, <1>6, GatewayContexts
<1>7. CASE h.metadata = OutgoingMetadata(RunContext(call[q]))
  BY <1>2, <1>4, <1>7, RunContexts
<1> QED
  BY <1>1, <1>5, <1>6, <1>7 DEF HopOK

\* The trace invariant holds initially.
LEMMA TraceInit == Init => TraceInv
  BY GateInit DEF Init, TraceInv, Tracing

\* A step of the handler of the gateway.
LEMMA TraceHandler ==
  ASSUME TraceInv, NEW q \in Requests, HandlerStep(q)
  PROVE  TraceInv'
<1>0. GateInv'
  BY GateHandler DEF TraceInv
<1> USE DEF TraceInv, Tracing, HopOK, Rest
<1>1. CASE RejectSubmission(q)
  BY <1>0, <1>1 DEF RejectSubmission, Respond, runVars, GateInv, Shape
<1>2. CASE AcceptSubmission(q)
  BY <1>0, <1>2 DEF AcceptSubmission, Hop, runVars, GateInv, Shape
<1>3. CASE ResolveTenantFails(q)
  BY <1>0, <1>3 DEF ResolveTenantFails, Respond, runVars, GateInv, Shape
<1>4. CASE RefuseTenant(q)
  BY <1>0, <1>4 DEF RefuseTenant, Respond, runVars, GateInv, Shape
<1>5. CASE ForwardClaim(q)
  BY <1>0, <1>5 DEF ForwardClaim, Resolved, Hop, GateInv, Shape
<1>6. CASE ForwardFails(q)
  BY <1>0, <1>6 DEF ForwardFails, Respond, runVars, GateInv, Shape
<1>7. CASE AnswerClaim(q)
  BY <1>0, <1>7 DEF AnswerClaim, Respond, runVars, GateInv, Shape
<1> QED
  BY <1>1, <1>2, <1>3, <1>4, <1>5, <1>6, <1>7 DEF HandlerStep

\* A step of the orchestration service for one request.
LEMMA TraceOrchestration ==
  ASSUME TraceInv, NEW q \in Requests, OrchestrationStep(q)
  PROVE  TraceInv'
<1>0. GateInv'
  BY GateOrchestration DEF TraceInv
<1> USE DEF TraceInv, Tracing, HopOK, Rest, gatewayVars, GateInv, Shape
<1>1. CASE ProcessClaim(q)
  BY <1>0, <1>1 DEF ProcessClaim, Hop
<1>2. CASE LoseCall(q)
  BY <1>0, <1>2 DEF LoseCall
<1>3. CASE LoadDag(q)
  BY <1>0, <1>3 DEF LoadDag
<1>4. CASE \E v \in Verdicts : ScoreClaim(q, v)
  BY <1>0, <1>4 DEF ScoreClaim, Hop
<1>5. CASE DegradeClaim(q)
  BY <1>0, <1>5 DEF DegradeClaim
<1>6. CASE \E s \in Orchestration!Statuses : PublishEvent(q, s)
  BY <1>0, <1>6 DEF PublishEvent
<1>7. CASE EndRun(q)
  BY <1>0, <1>7 DEF EndRun
<1> QED
  BY <1>1, <1>2, <1>3, <1>4, <1>5, <1>6, <1>7 DEF OrchestrationStep

\* Every step keeps the trace invariant.
LEMMA TraceStep == TraceInv /\ [Next]_vars => TraceInv'
<1> SUFFICES ASSUME TraceInv, [Next]_vars PROVE TraceInv'
  OBVIOUS
<1>0. GateInv'
  BY GateStep DEF TraceInv
<1> USE DEF TraceInv, Tracing, HopOK, Rest
<1>1. CASE \E q \in Requests : HandlerStep(q)
  BY <1>1, TraceHandler
<1>2. CASE \E q \in Requests : ServeGetTenant(q)
  BY <1>0, <1>2 DEF ServeGetTenant, runVars
<1>3. CASE \E q \in Requests : CallDirectly(q)
  BY <1>0, <1>3 DEF CallDirectly, GateInv, Shape
<1>4. CASE \E q \in Requests : OrchestrationStep(q)
  BY <1>4, TraceOrchestration
<1>5. CASE StopOrchestration
  BY <1>0, <1>5 DEF StopOrchestration, gatewayVars
<1>6. CASE StartOrchestration
  BY <1>0, <1>6 DEF StartOrchestration, gatewayVars
<1>7. CASE TenantConfigNext /\ UNCHANGED <<gatewayVars, runVars, hops>>
  BY <1>0, <1>7 DEF gatewayVars, runVars
<1>8. CASE UNCHANGED vars
  BY <1>0, <1>8 DEF vars
<1> QED
  BY <1>1, <1>2, <1>3, <1>4, <1>5, <1>6, <1>7, <1>8 DEF Next

\* Every RPC of a request carries the ids its answer and events show, for any mix
\* of metadata and payload and any interleaving (interceptors, ProcessClaim, Run).
THEOREM TraceNeverBreaks == Spec => []TraceUnbroken
  BY TraceInit, TraceStep, TraceImplies, PTL DEF Spec
-----------------------------------------------------------------------------
(* Answers and events.                                                     *)

\* What is known of the correlation id of a request: that of a submission is its
\* own once it has one, that of a direct call is never one the gateway made up.
IdInv ==
  \A q \in Requests :
    /\ Rest(q) => runCtx[q].correlationID \in {Unset, q}
    /\ ~Rest(q) => runCtx[q].correlationID \notin Requests
    /\ ~Rest(q) => CorrelationID(call[q]) \notin Requests

\* The history of a verdict: events and the reply carry it, the reply is given
\* under the id of the submission, and the gateway copies the reply.
VerdictInv ==
  /\ DOMAIN verdict = Requests /\ DOMAIN degraded = Requests /\ DOMAIN reply = Requests
  /\ \A e \in events :
       /\ verdict[e.request] # NoVerdict /\ e.score = verdict[e.request]
       /\ e.status = "degraded" => degraded[e.request]
  /\ \A q \in Requests :
       reply[q].kind = "result" =>
         /\ verdict[q] # NoVerdict /\ reply[q].score = verdict[q]
         /\ degraded[q] => reply[q].status = "degraded"
         /\ run[q] \in {"ended", "lost"}
         /\ Rest(q) => runCtx[q].correlationID = q

CopyInv ==
  \A q \in Requests :
    http[q].code = 200 =>
      /\ Rest(q) /\ caller[q] = "done" /\ reply[q].kind = "result"
      /\ http[q].correlationID = q /\ http[q].claimID = submission[q].claimID
      /\ http[q].score = reply[q].score /\ http[q].status = reply[q].status

MatchInv == TraceInv /\ submission \in [Requests -> Submissions] /\ IdInv /\ VerdictInv /\ CopyInv

\* An event with the id of an answer is about the same request.
LEMMA MatchImplies == MatchInv => AnswerMatchesEvents
<1> SUFFICES ASSUME MatchInv, NEW q \in Requests, http[q].code = 200, NEW e \in events,
                    runCtx[e.request].correlationID = http[q].correlationID
             PROVE  /\ submission[e.request].claimID = http[q].claimID
                    /\ e.score = http[q].score
                    /\ e.status = "degraded" => http[q].status = "degraded"
  BY DEF AnswerMatchesEvents
<1>id. http[q].correlationID = q /\ q # Unset
  BY RequestsAssumption DEF MatchInv, CopyInv
<1>own. e.request \in Requests
  BY DEF MatchInv, TraceInv, GateInv
<1>same. e.request = q
  BY <1>id, <1>own DEF MatchInv, IdInv
<1> QED
  BY <1>same DEF MatchInv, VerdictInv, CopyInv

\* Before anything happened nobody has an id.
LEMMA MatchInit == Init => MatchInv
<1> SUFFICES ASSUME Init PROVE MatchInv
  OBVIOUS
<1>trace. TraceInv
  BY TraceInit
<1>none. CorrelationID(NoCall) = Unset
  BY DEF CorrelationID, NoCall, OutgoingMetadata, Background, Values, IncomingContext,
         WithCorrelationID, WithTenantID, firstValue
<1>ids. IdInv
  BY <1>none, RequestsAssumption DEF Init, IdInv, Background
<1>verdicts. VerdictInv
  BY DEF Init, VerdictInv, Orchestration!Init, Orchestration!Pending
<1>copies. CopyInv
  BY DEF Init, CopyInv, Unanswered
<1> QED
  BY <1>trace, <1>ids, <1>verdicts, <1>copies DEF Init, MatchInv

\* A direct caller's id, from its claim or its metadata, is not one of the gateway.
LEMMA DirectIDs ==
  ASSUME NEW q \in Requests, submission \in [Requests -> Submissions], ~Rest(q), NEW c,
         c = [metadata |-> submission[q].metadata, correlationID |-> submission[q].correlationID]
  PROVE  CorrelationID(c) \notin Requests
<1>ids. /\ submission[q].correlationID \notin Requests
        /\ firstValue(submission[q].metadata.correlationID) \notin Requests
  BY DirectIDsAssumption DEF Rest
<1>context. IncomingContext(c.metadata).correlationID
              = firstValue(submission[q].metadata.correlationID)
  BY DEF IncomingContext, WithCorrelationID, WithTenantID, Background
<1> QED
  BY <1>ids, <1>context DEF CorrelationID

\* The handler of the gateway answers once, with what it was told.
LEMMA MatchHandler ==
  ASSUME MatchInv, NEW q \in Requests, HandlerStep(q)
  PROVE  MatchInv'
<1>trace. TraceInv'
  BY TraceHandler DEF MatchInv
<1>own. q # Unset
  BY RequestsAssumption
<1> USE DEF MatchInv, IdInv, VerdictInv, CopyInv, Rest, TraceInv, GateInv, Shape, runVars
<1>reject. CASE RejectSubmission(q)
  BY <1>trace, <1>reject DEF RejectSubmission, Respond, Response
<1>accept. CASE AcceptSubmission(q)
  BY <1>trace, <1>accept DEF AcceptSubmission
<1>unresolved. CASE ResolveTenantFails(q)
  BY <1>trace, <1>unresolved DEF ResolveTenantFails, Respond, Response
<1>refuse. CASE RefuseTenant(q)
  BY <1>trace, <1>refuse DEF RefuseTenant, Resolved, Respond, Response
<1>forward. CASE ForwardClaim(q)
  BY <1>trace, <1>forward DEF ForwardClaim, Resolved
<1>fail. CASE ForwardFails(q)
  BY <1>trace, <1>fail DEF ForwardFails, Respond, Response
<1>answer. CASE AnswerClaim(q)
  BY <1>trace, <1>answer DEF AnswerClaim, Respond
<1> QED
  BY <1>reject, <1>accept, <1>unresolved, <1>refuse, <1>forward, <1>fail, <1>answer
  DEF HandlerStep

\* The orchestration service gives one verdict and repeats it.
LEMMA MatchOrchestration ==
  ASSUME MatchInv, NEW q \in Requests, OrchestrationStep(q)
  PROVE  MatchInv'
<1>trace. TraceInv'
  BY TraceOrchestration DEF MatchInv
<1>gateway. ASSUME Rest(q), run[q] # "none" PROVE CorrelationID(call[q]) = q
  BY <1>gateway, GatewayIDs DEF MatchInv, TraceInv
<1>known. ASSUME Rest(q), run[q] \in {"loading", "running"} PROVE runCtx[q].correlationID = q
  BY <1>known, <1>gateway DEF MatchInv, TraceInv, Tracing
<1> USE DEF MatchInv, IdInv, VerdictInv, CopyInv, Rest, TraceInv, GateInv, Shape, gatewayVars
<1>start. CASE ProcessClaim(q)
  <2> DEFINE id == CorrelationID(call[q])
  <2>chosen. /\ run[q] = "sent" /\ run' = [run EXCEPT ![q] = "loading"]
             /\ runCtx'[q].correlationID = id
             /\ \A p \in Requests : p # q => runCtx'[p] = runCtx[p]
             /\ UNCHANGED <<submission, caller, call, http, verdict, degraded, reply, events>>
    BY <1>start DEF ProcessClaim
  <2>mine. (Rest(q) => id = q) /\ (~Rest(q) => id \notin Requests)
    BY <1>gateway, <2>chosen
  <2>ids. IdInv'
    BY <2>chosen, <2>mine
  <2> QED
    BY <1>trace, <2>chosen, <2>ids
<1>lose. CASE LoseCall(q)
  BY <1>trace, <1>lose DEF LoseCall
<1>load. CASE LoadDag(q)
  BY <1>trace, <1>load DEF LoadDag
<1>score. CASE \E v \in Verdicts : ScoreClaim(q, v)
  BY <1>trace, <1>score DEF ScoreClaim, Orchestration!Settle, Orchestration!Pending
<1>degrade. CASE DegradeClaim(q)
  BY <1>trace, <1>degrade DEF DegradeClaim, Orchestration!Degrade, Orchestration!Pending
<1>publish. CASE \E s \in Orchestration!Statuses : PublishEvent(q, s)
  BY <1>trace, <1>publish DEF PublishEvent, Orchestration!Emit
<1>end. CASE EndRun(q)
  BY <1>trace, <1>known, <1>end
  DEF EndRun, Orchestration!Answer, Orchestration!Refuse, Orchestration!Pending,
      Orchestration!Error, Orchestration!Result
<1> QED
  BY <1>start, <1>lose, <1>load, <1>score, <1>degrade, <1>publish, <1>end DEF OrchestrationStep

\* Every step keeps answers and events in agreement.
LEMMA MatchStep == MatchInv /\ [Next]_vars => MatchInv'
<1> SUFFICES ASSUME MatchInv, [Next]_vars PROVE MatchInv'
  OBVIOUS
<1>trace. TraceInv'
  BY TraceStep DEF MatchInv
<1>direct. CASE \E q \in Requests : CallDirectly(q)
  <2> PICK q \in Requests : CallDirectly(q)
    BY <1>direct
  <2>id. CorrelationID(call'[q]) \notin Requests
    BY DirectIDs DEF CallDirectly, MatchInv, TraceInv
  <2> QED
    BY <1>trace, <2>id
    DEF CallDirectly, MatchInv, IdInv, VerdictInv, CopyInv, Rest, TraceInv, GateInv, Shape
<1> USE DEF MatchInv, IdInv, VerdictInv, CopyInv, Rest, gatewayVars, runVars
<1>handler. CASE \E q \in Requests : HandlerStep(q)
  BY <1>handler, MatchHandler
<1>tenant. CASE \E q \in Requests : ServeGetTenant(q)
  BY <1>trace, <1>tenant DEF ServeGetTenant
<1>orchestration. CASE \E q \in Requests : OrchestrationStep(q)
  BY <1>orchestration, MatchOrchestration
<1>stop. CASE StopOrchestration
  BY <1>trace, <1>stop DEF StopOrchestration
<1>start. CASE StartOrchestration
  BY <1>trace, <1>start DEF StartOrchestration
<1>config. CASE TenantConfigNext /\ UNCHANGED <<gatewayVars, runVars, hops>>
  BY <1>trace, <1>config
<1>idle. CASE UNCHANGED vars
  BY <1>trace, <1>idle DEF vars
<1> QED
  BY <1>direct, <1>handler, <1>tenant, <1>orchestration, <1>stop, <1>start, <1>config, <1>idle
  DEF Next

\* Every event found by the correlation id of an answer is about that claim and
\* agrees with the answer, for any number of concurrent submissions, direct calls,
\* timeouts and crashes (SubmitClaim, ProcessClaim, Publish).
THEOREM AnswersFindTheirEvents == Spec => []AnswerMatchesEvents
  BY MatchInit, MatchStep, MatchImplies, PTL DEF Spec
-----------------------------------------------------------------------------
(* What tenant-config-svc keeps out.                                       *)

DirectCall(q) == [metadata      |-> submission[q].metadata,
                  correlationID |-> submission[q].correlationID]

\* Nothing is known before it was asked for: a submission that has not been looked
\* at has no answer about its tenant, a run that has not been loaded no score.
\* The call of a direct caller stays the one it made.
EarlyInv ==
  /\ MatchInv
  /\ \A q \in Requests :
       /\ caller[q] = "new" => tenantStatus[q] = NoAnswer
       /\ ~Rest(q) /\ run[q] # "none" => call[q] = DirectCall(q)
       /\ run[q] \in {"none", "sent", "loading"} => verdict[q] = NoVerdict

\* It holds initially.
LEMMA EarlyInit == Init => EarlyInv
  BY MatchInit DEF Init, EarlyInv, Orchestration!Init

\* Every step keeps it.
LEMMA EarlyStep == EarlyInv /\ [Next]_vars => EarlyInv'
<1> SUFFICES ASSUME EarlyInv, [Next]_vars PROVE EarlyInv'
  OBVIOUS
<1>match. MatchInv'
  BY MatchStep DEF EarlyInv
<1>shape. /\ DOMAIN caller = Requests /\ DOMAIN run = Requests
          /\ DOMAIN call = Requests /\ DOMAIN verdict = Requests
          /\ \A q \in Requests : caller[q] = "resolving" => Rest(q)
          /\ \A q \in Requests : caller[q] \in {"new", "resolving"} => run[q] = "none"
  BY DEF EarlyInv, MatchInv, TraceInv, GateInv, Shape, VerdictInv
<1> USE DEF EarlyInv, DirectCall, Rest, gatewayVars, runVars
<1>handler. CASE \E q \in Requests : HandlerStep(q)
  <2> PICK q \in Requests : HandlerStep(q)
    BY <1>handler
  <2> QED
    BY <1>match, <1>shape
    DEF HandlerStep, RejectSubmission, AcceptSubmission, ResolveTenantFails, RefuseTenant,
        ForwardClaim, ForwardFails, AnswerClaim, Respond, Resolved
<1>tenant. CASE \E q \in Requests : ServeGetTenant(q)
  BY <1>match, <1>tenant DEF ServeGetTenant
<1>direct. CASE \E q \in Requests : CallDirectly(q)
  BY <1>match, <1>shape, <1>direct DEF CallDirectly
<1>orchestration. CASE \E q \in Requests : OrchestrationStep(q)
  <2> PICK q \in Requests : OrchestrationStep(q)
    BY <1>orchestration
  <2>score. CASE \E v \in Verdicts : ScoreClaim(q, v)
    BY <1>match, <1>shape, <2>score DEF ScoreClaim, Orchestration!Settle
  <2>end. CASE EndRun(q)
    BY <1>match, <1>shape, <2>end DEF EndRun, Orchestration!Answer, Orchestration!Refuse
  <2> QED
    BY <1>match, <1>shape, <2>score, <2>end
    DEF OrchestrationStep, ProcessClaim, LoseCall, LoadDag, DegradeClaim, PublishEvent,
        Orchestration!Degrade, Orchestration!Emit
<1>stop. CASE StopOrchestration
  BY <1>match, <1>shape, <1>stop DEF StopOrchestration
<1>start. CASE StartOrchestration
  BY <1>match, <1>start DEF StartOrchestration
<1>config. CASE TenantConfigNext /\ UNCHANGED <<gatewayVars, runVars, hops>>
  BY <1>match, <1>config
<1>idle. CASE UNCHANGED vars
  BY <1>match, <1>idle DEF vars
<1> QED
  BY <1>handler, <1>tenant, <1>direct, <1>orchestration, <1>stop, <1>start, <1>config, <1>idle
  DEF Next

\* A submission that has not been forwarded, and of whose tenant nothing good has
\* been heard.
KeptOut(q) ==
  /\ Rest(q) /\ run[q] = "none"
  /\ caller[q] \in {"new", "resolving", "done"}
  /\ caller[q] = "new" => tenantStatus[q] = NoAnswer
  /\ caller[q] = "resolving" =>
       tenantStatus[q] \in {NoAnswer, NotFound} \/ ~Active(tenantStatus[q])

\* While the tenant is not active, the answer on its way may be lost or may come,
\* and neither lets the submission through.
LEMMA KeptOutStep ==
  ASSUME NEW q \in Requests, EarlyInv, [Next]_vars, KeptOut(q), ~TenantActive
  PROVE  KeptOut(q)'
<1>shape. DOMAIN caller = Requests /\ DOMAIN run = Requests
  BY DEF EarlyInv, MatchInv, TraceInv, GateInv, Shape
<1>early. \A p \in Requests : caller[p] = "new" => tenantStatus[p] = NoAnswer
  BY DEF EarlyInv
<1> USE DEF KeptOut, Rest, gatewayVars, runVars
<1>handler. CASE \E p \in Requests : HandlerStep(p)
  <2> PICK p \in Requests : HandlerStep(p)
    BY <1>handler
  <2>forward. CASE ForwardClaim(p)
    BY <1>shape, <2>forward DEF ForwardClaim, Resolved
  <2> QED
    BY <1>shape, <1>early, <2>forward
    DEF HandlerStep, RejectSubmission, AcceptSubmission, ResolveTenantFails, RefuseTenant,
        ForwardFails, AnswerClaim, Respond
<1>tenant. CASE \E p \in Requests : ServeGetTenant(p)
  <2>answer. serving => \/ GetTenant(hardcodedTenantID) = NotFound
                        \/ ~Active(GetTenant(hardcodedTenantID))
    BY DEF TenantActive, GetTenant, Known, Active
  <2> QED
    BY <1>tenant, <2>answer DEF ServeGetTenant
<1>direct. CASE \E p \in Requests : CallDirectly(p)
  BY <1>shape, <1>direct DEF CallDirectly
<1>orchestration. CASE \E p \in Requests : OrchestrationStep(p)
  BY <1>shape, <1>orchestration
  DEF OrchestrationStep, ProcessClaim, LoseCall, LoadDag, ScoreClaim, DegradeClaim,
      PublishEvent, EndRun
<1>stop. CASE StopOrchestration
  BY <1>stop DEF StopOrchestration
<1>start. CASE StartOrchestration
  BY <1>start DEF StartOrchestration
<1>config. CASE TenantConfigNext /\ UNCHANGED <<gatewayVars, runVars, hops>>
  BY <1>config
<1>idle. CASE UNCHANGED vars
  BY <1>idle DEF vars
<1> QED
  BY <1>handler, <1>tenant, <1>direct, <1>orchestration, <1>stop, <1>start, <1>config, <1>idle
  DEF Next

\* A claim that came in after the tenant was last active is never forwarded,
\* however the lookup, its timeout, restarts of tenant-config-svc and edits of its
\* file interleave (resolveTenant and the checks after it).
THEOREM InactiveTenantsStayOut == Spec => SuspendedStaysOut
<1>one. ASSUME NEW q \in Requests
        PROVE  Spec => []((caller[q] = "new" /\ Rest(q) /\ []~TenantActive)
                             => [](run[q] = "none"))
  <2>begin. EarlyInv /\ caller[q] = "new" /\ Rest(q) => KeptOut(q)
    BY DEF EarlyInv, MatchInv, TraceInv, GateInv, KeptOut
  <2>stay. EarlyInv /\ [Next]_vars /\ KeptOut(q) /\ ~TenantActive => KeptOut(q)'
    BY KeptOutStep
  <2>out. KeptOut(q) => run[q] = "none"
    BY DEF KeptOut
  <2> QED
    BY <2>begin, <2>stay, <2>out, EarlyInit, EarlyStep, PTL DEF Spec
<1> QED
  BY <1>one DEF SuspendedStaysOut

\* A request that has no score, no event and no result, and that has to load a DAG
\* to get them.
Unscored(q) ==
  /\ run[q] \in {"none", "sent", "loading", "ended", "lost"}
  /\ verdict[q] = NoVerdict /\ reply[q].kind # "result" /\ EventsOf(q) = {}

\* The tenant of a run is the one its request came with, be it that the gateway or
\* a direct caller put it into the metadata.
LEMMA TenantOfRun ==
  ASSUME NEW q \in Requests, EarlyInv, run[q] = "loading"
  PROVE  runCtx[q].tenantID = TenantOf(q)
<1>called. runCtx[q].tenantID = TenantID(call[q])
  BY DEF EarlyInv, MatchInv, TraceInv, Tracing
<1>rest. CASE Rest(q)
  BY <1>called, <1>rest, GatewayIDs DEF EarlyInv, MatchInv, TraceInv, TenantOf
<1>direct. CASE ~Rest(q)
  <2>made. call[q] = DirectCall(q)
    BY <1>direct DEF EarlyInv
  <2>sent. TenantID(DirectCall(q)) = firstValue(submission[q].metadata.tenantID)
    BY DEF TenantID, DirectCall, IncomingContext, WithCorrelationID, WithTenantID, Background
  <2> QED
    BY <1>called, <1>direct, <2>made, <2>sent DEF TenantOf
<1> QED
  BY <1>rest, <1>direct

\* While no version is configured for a request, it goes on to its refusal or is
\* lost.
LEMMA UnscoredStep ==
  ASSUME NEW q \in Requests, EarlyInv, [Next]_vars, Unscored(q), ~Configured(q)
  PROVE  Unscored(q)'
<1>shape. DOMAIN run = Requests /\ DOMAIN verdict = Requests /\ DOMAIN reply = Requests
  BY DEF EarlyInv, MatchInv, TraceInv, GateInv, Shape, VerdictInv
<1> USE DEF Unscored, EventsOf, gatewayVars, runVars
<1>handler. CASE \E p \in Requests : HandlerStep(p)
  <2> PICK p \in Requests : HandlerStep(p)
    BY <1>handler
  <2>forward. CASE ForwardClaim(p)
    BY <1>shape, <2>forward DEF ForwardClaim
  <2> QED
    BY <2>forward
    DEF HandlerStep, RejectSubmission, AcceptSubmission, ResolveTenantFails, RefuseTenant,
        ForwardFails, AnswerClaim
<1>tenant. CASE \E p \in Requests : ServeGetTenant(p)
  BY <1>tenant DEF ServeGetTenant
<1>direct. CASE \E p \in Requests : CallDirectly(p)
  BY <1>shape, <1>direct DEF CallDirectly
<1>orchestration. CASE \E p \in Requests : OrchestrationStep(p)
  <2> PICK p \in Requests : OrchestrationStep(p)
    BY <1>orchestration
  <2>load. CASE LoadDag(p)
    <3>tenant. run[q] = "loading" => runCtx[q].tenantID = TenantOf(q)
      BY TenantOfRun
    <3> QED
      BY <1>shape, <2>load, <3>tenant DEF LoadDag, HasDagVersion, Known, Configured
  <2>score. CASE \E v \in Verdicts : ScoreClaim(p, v)
    BY <1>shape, <2>score DEF ScoreClaim, Orchestration!Settle
  <2>publish. CASE \E s \in Orchestration!Statuses : PublishEvent(p, s)
    BY <1>shape, <2>publish DEF PublishEvent, Orchestration!Emit
  <2>end. CASE EndRun(p)
    BY <1>shape, <2>end DEF EndRun, Orchestration!Answer, Orchestration!Refuse,
       Orchestration!Error
  <2> QED
    BY <1>shape, <2>load, <2>score, <2>publish, <2>end
    DEF OrchestrationStep, ProcessClaim, LoseCall, DegradeClaim, Orchestration!Degrade
<1>stop. CASE StopOrchestration
  BY <1>stop DEF StopOrchestration
<1>start. CASE StartOrchestration
  BY <1>start DEF StartOrchestration
<1>config. CASE TenantConfigNext /\ UNCHANGED <<gatewayVars, runVars, hops>>
  BY <1>config
<1>idle. CASE UNCHANGED vars
  BY <1>idle DEF vars
<1> QED
  BY <1>handler, <1>tenant, <1>direct, <1>orchestration, <1>stop, <1>start, <1>config, <1>idle
  DEF Next

\* A request whose tenant and product have no DAG version from its submission on
\* gets no result and leaves no event, by whichever way it came in (Loader.Load,
\* GetDagVersion).
THEOREM UnconfiguredStaysUnscored == Spec => UnconfiguredNeverScored
<1>one. ASSUME NEW q \in Requests
        PROVE  Spec => []((caller[q] = "new" /\ []~Configured(q))
                             => [](reply[q].kind # "result" /\ EventsOf(q) = {}))
  <2>begin. EarlyInv /\ caller[q] = "new" => Unscored(q)
    BY DEF EarlyInv, MatchInv, TraceInv, GateInv, VerdictInv, Unscored, EventsOf
  <2>stay. EarlyInv /\ [Next]_vars /\ Unscored(q) /\ ~Configured(q) => Unscored(q)'
    BY UnscoredStep
  <2>none. Unscored(q) => reply[q].kind # "result" /\ EventsOf(q) = {}
    BY DEF Unscored
  <2> QED
    BY <2>begin, <2>stay, <2>none, EarlyInit, EarlyStep, PTL DEF Spec
<1> QED
  BY <1>one DEF UnconfiguredNeverScored
-----------------------------------------------------------------------------
(* Where the id of the claim and that of the metadata can disagree.        *)

\* A run that uses another correlation id than the one in the metadata of its call
\* (the disagreement CorrelationIDFromContext is about) was called directly, with
\* two ids that differ; no claim of the gateway, and no caller that sends one id or
\* the same twice, meets it (SubmitClaim, ProcessClaim).
THEOREM OnlyTwoIDsDisagree ==
  Spec => [](\A q \in Requests :
               /\ run[q] = "loading" /\ call[q].metadata.correlationID # <<>>
               /\ runCtx[q].correlationID # firstValue(call[q].metadata.correlationID)
               => /\ ~Rest(q)
                  /\ submission[q].correlationID
                       \notin {Unset, firstValue(submission[q].metadata.correlationID)})
<1>one. ASSUME EarlyInv, NEW q \in Requests, run[q] = "loading",
               runCtx[q].correlationID # firstValue(call[q].metadata.correlationID)
        PROVE  /\ ~Rest(q)
               /\ submission[q].correlationID
                    \notin {Unset, firstValue(submission[q].metadata.correlationID)}
  <2>called. runCtx[q].correlationID = CorrelationID(call[q])
    BY <1>one DEF EarlyInv, MatchInv, TraceInv, Tracing
  <2>rest. Rest(q) => firstValue(call[q].metadata.correlationID) = q
    BY <1>one, GatewayContexts, FirstOfValues
    DEF EarlyInv, MatchInv, TraceInv, GatewayCall, OutgoingMetadata
  <2>direct. ~Rest(q)
    BY <1>one, <2>called, <2>rest, GatewayIDs DEF EarlyInv, MatchInv, TraceInv
  <2>made. call[q] = DirectCall(q)
    BY <1>one, <2>direct DEF EarlyInv
  <2>context. IncomingContext(call[q].metadata).correlationID
                = firstValue(call[q].metadata.correlationID)
    BY DEF IncomingContext, WithCorrelationID, WithTenantID, Background
  <2> QED
    BY <1>one, <2>called, <2>direct, <2>made, <2>context DEF CorrelationID, DirectCall
<1>all. EarlyInv =>
          \A q \in Requests :
             /\ run[q] = "loading" /\ call[q].metadata.correlationID # <<>>
             /\ runCtx[q].correlationID # firstValue(call[q].metadata.correlationID)
             => /\ ~Rest(q)
                /\ submission[q].correlationID
                     \notin {Unset, firstValue(submission[q].metadata.correlationID)}
  BY <1>one
<1> QED
  BY EarlyInit, EarlyStep, <1>all, PTL DEF Spec
=============================================================================
