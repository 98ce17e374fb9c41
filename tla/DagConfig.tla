------------------------------ MODULE DagConfig ------------------------------
(***************************************************************************)
(* The DAG configuration of the orchestration service: what a parsed YAML  *)
(* file holds and the predicates the executor evaluates on it              *)
(* (internal/dag/config.go and the helpers of internal/dag/executor.go).   *)
(*                                                                         *)
(* The version of a file and the identifier of a node are only logged, the *)
(* group name is never read, and a timeout only bounds the real time of an *)
(* attempt, so none of them is kept here.                                  *)
(* The lists depends_on and enabled_for are only searched, so they are     *)
(* sets.                                                                   *)
(***************************************************************************)
EXTENDS Integers, Sequences

\* One DAG node.  maxRetries is any integer: the YAML value is not validated.
Node == [service: STRING, maxRetries: Int, onFailure: STRING,
         dependsOn: SUBSET STRING, enabledFor: SUBSET STRING]

\* One parsed configuration file.
Config == [nodes: Seq(Node)]

groupEnrichment == "enrichment"
nodeModelScore  == "model_score"

EffectiveOnFailure(n) == IF n.onFailure = "" THEN "fail_fast" ELSE n.onFailure

EnabledForTenant(n, tenant) == n.enabledFor = {} \/ tenant \in n.enabledFor

DependsOn(n, name) == name \in n.dependsOn

\* The three loops of Run, by the stage of the run they belong to.
Stages == {"enrichment", "scoring", "publishing"}

InStage(n, stage) ==
  CASE stage = "enrichment" -> n.dependsOn = {}
    [] stage = "scoring"    -> DependsOn(n, groupEnrichment)
    [] stage = "publishing" -> DependsOn(n, nodeModelScore)

\* The services the switch of each loop knows; any other is only warned about.
Recognized(n, stage) ==
  CASE stage = "enrichment" -> n.service \in {"claimant-id-hashing-svc",
                                              "address-normalization-svc",
                                              "policy-lookup-svc"}
    [] stage = "scoring"    -> n.service = "model-service"
    [] stage = "publishing" -> n.service = "kafka-publisher"

\* The node is called in that stage of a run for that tenant.
RunsIn(n, stage, tenant) ==
  InStage(n, stage) /\ EnabledForTenant(n, tenant) /\ Recognized(n, stage)

\* A mutation: an unknown policy string is treated as best effort.
MutHandledUnlessFailFast(n) == n.onFailure # "fail_fast"

\* The failure of the node lets the run continue.
NodeFailureHandled(n) == EffectiveOnFailure(n) \in {"skip", "degrade"}
=============================================================================
