------------------------------ MODULE MCTiming ------------------------------
(***************************************************************************)
(* The DAG file the repository ships (config/dag/acme_insurance/auto/      *)
(* claim.fnol.yaml, version 4), whose budget is 480 ms, with a clock that  *)
(* moves in steps of 10 ms and stops when the slowest run has had its time *)
(* after a load of at most 40 ms.                                          *)
(***************************************************************************)
EXTENDS Timing

CallOf(timeoutMs, maxRetries) == [timeoutMs |-> timeoutMs, maxRetries |-> maxRetries]

ShippedCalls == <<CallOf(40, 1), CallOf(40, 1), CallOf(40, 1),
                  CallOf(80, 0), CallOf(100, 0)>>

MaxSteps == 52

EveryTenMs == {10 * k : k \in 0 .. MaxSteps}
=============================================================================
