---------------------------- MODULE ClaimOutcome ----------------------------
(***************************************************************************)
(* What the orchestration service promises the caller of ProcessClaim and  *)
(* the consumers of claims.realtime, without its DAG, its retries or its   *)
(* Kafka writer.  A request gets one verdict and at most one answer.  An   *)
(* event about it appears only after the verdict, always carries that      *)
(* verdict, and says "degraded" only when the request was degraded before  *)
(* and for good; it may appear more than once, before or after the answer, *)
(* and also when the answer is an error.                                   *)
(***************************************************************************)
CONSTANTS Requests, Verdicts, NoVerdict

VARIABLES
  verdict,   \* request -> its score, once it is settled
  degraded,  \* request -> some part of the work was given up
  reply,     \* request -> what the caller has been told
  events     \* what consumers of the topic can see

vars == <<verdict, degraded, reply, events>>

Statuses == {"scored", "degraded"}

Pending == [kind |-> "pending"]
Error   == [kind |-> "error"]
Result(status, score) == [kind |-> "result", status |-> status, score |-> score]

Init ==
  /\ verdict = [q \in Requests |-> NoVerdict]
  /\ degraded = [q \in Requests |-> FALSE]
  /\ reply = [q \in Requests |-> Pending]
  /\ events = {}

Settle(q, v) ==
  /\ reply[q] = Pending /\ verdict[q] = NoVerdict
  /\ verdict' = [verdict EXCEPT ![q] = v]
  /\ UNCHANGED <<degraded, reply, events>>

Degrade(q) ==
  /\ reply[q] = Pending
  /\ degraded' = [degraded EXCEPT ![q] = TRUE]
  /\ UNCHANGED <<verdict, reply, events>>

Emit(q, status) ==
  /\ verdict[q] # NoVerdict
  /\ status = "degraded" => degraded[q]
  /\ events' = events \cup {[request |-> q, status |-> status, score |-> verdict[q]]}
  /\ UNCHANGED <<verdict, degraded, reply>>

Answer(q) ==
  /\ reply[q] = Pending /\ verdict[q] # NoVerdict
  /\ reply' = [reply EXCEPT ![q] =
                 Result(IF degraded[q] THEN "degraded" ELSE "scored", verdict[q])]
  /\ UNCHANGED <<verdict, degraded, events>>

Refuse(q) ==
  /\ reply[q] = Pending
  /\ reply' = [reply EXCEPT ![q] = Error]
  /\ UNCHANGED <<verdict, degraded, events>>

Next ==
  \E q \in Requests :
    \/ \E v \in Verdicts : Settle(q, v)
    \/ Degrade(q)
    \/ \E s \in Statuses : Emit(q, s)
    \/ Answer(q)
    \/ Refuse(q)

Spec == Init /\ [][Next]_vars
=============================================================================
