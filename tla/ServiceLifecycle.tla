-------------------------- MODULE ServiceLifecycle --------------------------
(***************************************************************************)
(* What every process of the platform promises about coming up: a launched *)
(* process does not stay half started.  It serves or it exits, whatever    *)
(* the services it depends on do, and it is launched afresh after an exit. *)
(* The services without dependencies and without a runtime to shut down    *)
(* (tenant-config-svc and model-service) are exactly this.                 *)
(***************************************************************************)
CONSTANT Processes

VARIABLE phase    \* process -> where it is in its life

Init == phase = [p \in Processes |-> "down"]

Launch(p) ==
  phase[p] = "down" /\ phase' = [phase EXCEPT ![p] = "starting"]

\* The listener is bound, or log.Fatalf ends the process.
Settle(p) ==
  /\ phase[p] = "starting"
  /\ \E to \in {"serving", "down"} : phase' = [phase EXCEPT ![p] = to]

Exit(p) ==
  phase[p] = "serving" /\ phase' = [phase EXCEPT ![p] = "down"]

Next == \E p \in Processes : Launch(p) \/ Settle(p) \/ Exit(p)

Spec == Init /\ [][Next]_phase /\ \A p \in Processes : WF_phase(Settle(p))
=============================================================================
