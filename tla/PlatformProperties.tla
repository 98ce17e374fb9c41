------------------------- MODULE PlatformProperties -------------------------
(***************************************************************************)
(* What makes the path of a claim correct, from the client of the gateway  *)
(* to the consumers of claims.realtime.                                    *)
(***************************************************************************)
EXTENDS Platform

EventsOf(q) == {e \in events : e.request = q}

\* A submission that is refused leaves nothing behind, then or later: once the
\* gateway has answered 400, 403 or 405, also because the tenant lookup timed out
\* while its answer was on the way, no run is started and no event appears
\* (SubmitClaim, "before anything downstream runs").
RefusedLeavesNoTrace ==
  \A q \in Requests :
    http[q].code \in {400, 403, 405} => run[q] = "none" /\ EventsOf(q) = {}

\* One id ties a request together: every call recorded in hops, by the gateway or by
\* the orchestration service, carries the correlation id its answer and its events
\* show, whatever mixture of metadata and payload it came with; and every one from
\* ProcessClaim on carries the tenant it runs for (the interceptors, ProcessClaim,
\* the first lines of Run).
TraceUnbroken ==
  \A h \in hops :
    LET q == h.request IN
    run[q] \in {"loading", "running", "ended"} =>
      /\ firstValue(h.metadata.correlationID) = runCtx[q].correlationID
      /\ h.method # "GetTenant" => firstValue(h.metadata.tenantID) = runCtx[q].tenantID

\* A client can find the events of its claim by the correlation id of its answer:
\* every event with that id is about that claim, has that score, and is degraded
\* only if the answer was, however many clients submit at once or submit again.
AnswerMatchesEvents ==
  \A q \in Requests : http[q].code = 200 =>
    \A e \in events :
      runCtx[e.request].correlationID = http[q].correlationID =>
        /\ submission[e.request].claimID = http[q].claimID
        /\ e.score = http[q].score
        /\ e.status = "degraded" => http[q].status = "degraded"

\* tenant-config-svc is up and has the tenant of the gateway as active.
TenantActive ==
  /\ serving
  /\ hardcodedTenantID \in DOMAIN byID
  /\ byID[hardcodedTenantID].status = "active"

\* The gate needs the tenant to be active after the submission came in: if
\* tenant-config-svc never says so from then on, be it that it was restarted with
\* another status, that it lost the tenant or that it is down, the claim is never
\* forwarded (resolveTenant and the two checks after it).
SuspendedStaysOut ==
  \A q \in Requests :
    []((caller[q] = "new" /\ Rest(q) /\ []~TenantActive) => [](run[q] = "none"))

\* The tenant a request will run for, if it runs.
TenantOf(q) == IF Rest(q) THEN hardcodedTenantID
               ELSE firstValue(submission[q].metadata.tenantID)

Configured(q) ==
  /\ TenantOf(q) \in DOMAIN byID
  /\ submission[q].product \in byID[TenantOf(q)].dagVersions

\* The same for the DAG version, whichever way a request came in: if from then on
\* tenant-config-svc has none for its tenant and product, or the request names no
\* tenant, it gets no result and no event about it appears (Loader.Load with
\* GetDagVersion).
UnconfiguredNeverScored ==
  \A q \in Requests :
    []((caller[q] = "new" /\ []~Configured(q))
         => [](reply[q].kind # "result" /\ EventsOf(q) = {}))

\* Every submission is answered, whether tenant-config-svc and the orchestration
\* service are up, down, or up and silent (the timeouts of 2 and 5 s).
EverySubmissionAnswered ==
  \A q \in Requests : Rest(q) ~> http[q].code # 0
-----------------------------------------------------------------------------
(* What the repository says and the code does not do.                      *)

\* "reads tenant_id/correlation_id off ctx - populated by
\* telemetry.UnaryServerInterceptor from incoming x-tenant-id/x-correlation-id
\* metadata": a run whose call has a correlation id in its metadata uses that one
\* (ProcessClaim).
CorrelationIDFromContext ==
  \A q \in Requests :
    run[q] = "loading" /\ call[q].metadata.correlationID # <<>>
      => runCtx[q].correlationID = firstValue(call[q].metadata.correlationID)
=============================================================================
