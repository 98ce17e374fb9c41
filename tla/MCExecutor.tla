----------------------------- MODULE MCExecutor -----------------------------
(***************************************************************************)
(* Instances of the executor for TLC: the DAG file the repository ships,   *)
(* DAG files that use what it does not (several scorers or publishers,     *)
(* tenant-gated nodes, unknown services and policies, negative retries),   *)
(* and the claims of the test suites.                                      *)
(***************************************************************************)
EXTENDS ExecutorProperties

NodeOf(service, dependsOn, maxRetries, onFailure) ==
  [service |-> service, dependsOn |-> dependsOn, maxRetries |-> maxRetries,
   onFailure |-> onFailure, enabledFor |-> {}]

HashNode(n, p)    == NodeOf("claimant-id-hashing-svc", {}, n, p)
AddressNode(n, p) == NodeOf("address-normalization-svc", {}, n, p)
PolicyNode(n, p)  == NodeOf("policy-lookup-svc", {}, n, p)
ModelNode(n, p)   == NodeOf("model-service", {"enrichment"}, n, p)
PublishNode(n, p) == NodeOf("kafka-publisher", {"model_score"}, n, p)

\* config/dag/acme_insurance/auto/claim.fnol.yaml, version 4.
Shipped == [nodes |-> <<HashNode(1, "fail_fast"), AddressNode(1, "skip"),
                        PolicyNode(1, "degrade"), ModelNode(0, ""),
                        PublishNode(0, "skip")>>]

\* Two scorers, the second best effort, before a publish that must succeed.
TwoScorers == [nodes |-> <<PublishNode(1, "fail_fast"), ModelNode(1, "skip"),
                           PolicyNode(0, "skip"), ModelNode(0, "degrade")>>]

\* Two publishers, an address node only another tenant gets, a service no stage
\* knows, a node whose dependency no loop looks for, and a publisher that also
\* depends on the enrichment group.
Mixed == [nodes |-> <<NodeOf("geo-svc", {}, 0, "skip"),
                      [AddressNode(0, "skip") EXCEPT !.enabledFor = {"globex"}],
                      NodeOf("model-service", {"publish"}, 0, ""),
                      PolicyNode(0, "ignore"),
                      ModelNode(0, "fail_fast"),
                      NodeOf("kafka-publisher", {"enrichment", "model_score"}, 0, "degrade"),
                      PublishNode(1, "skip")>>]

\* max_retries: -1 on an enrichment node and on the publisher.
NegativeRetries == [nodes |-> <<PolicyNode(-1, "degrade"), AddressNode(0, "skip"),
                                ModelNode(0, ""), PublishNode(-1, "skip")>>]

\* A parseable file without a scorer.
NoScorer == [nodes |-> <<HashNode(0, "skip")>>]

\* The least DAG with a node in every stage, with retries.
Small == [nodes |-> <<HashNode(1, "skip"), ModelNode(0, ""), PublishNode(1, "skip")>>]

\* The same without a retry of the hash, for two runs at once.
Tiny == [nodes |-> <<HashNode(0, "skip"), ModelNode(0, ""), PublishNode(1, "skip")>>]

AllConfigs      == {Shipped, TwoScorers, Mixed, NegativeRetries, NoScorer, Small}
SmallConfigs    == {Small}
TinyConfigs     == {Tiny}
NegativeConfigs == {NegativeRetries}
ScorerConfigs   == {TwoScorers}

Plain(s) == [canon |-> s, spelling |-> s]

\* The smoke test of RUNBOOK.md: active policy, complete address.
SmokeTest == [tenant |-> "acme_insurance", product |-> "auto",
              eventType |-> "claim.fnol", claimantName |-> Plain("jane doe"),
              rawAddress |-> <<"words", "word", "words">>,
              policyNumber |-> Plain("POL-123456"), deadline |-> TRUE]

\* A lapsed policy spelled in lower case; an address without a state.
Lapsed == [SmokeTest EXCEPT !.policyNumber = [canon |-> "POL-654321",
                                              spelling |-> " pol-654321"],
                            !.rawAddress = <<"words", "word", "word">>]

\* Only the fields the gateway requires.
Bare == [SmokeTest EXCEPT !.policyNumber = Plain(""), !.claimantName = Plain(""),
                          !.rawAddress = <<"empty">>]

\* A direct gRPC call without a deadline.
NoDeadline == [SmokeTest EXCEPT !.deadline = FALSE]

AllClaims   == {SmokeTest, Lapsed, Bare, NoDeadline}
OneClaim    == {SmokeTest}
BothCallers == {SmokeTest, NoDeadline}
=============================================================================
