----------------------------- MODULE MCStartup -----------------------------
(***************************************************************************)
(* A deployment with some of the platform's services: each of them dials   *)
(* what its main dials, as far as it is part of the deployment.            *)
(***************************************************************************)
EXTENDS Startup

MCDials == [s \in Services |-> SelectSeq(DialOrder(s), LAMBDA t : t \in Services)]
=============================================================================
