------------------------------- MODULE Timing -------------------------------
(***************************************************************************)
(* How long a run of the DAG executor takes: callWithResilience and        *)
(* nodeTimeout (internal/dag/executor.go) with a clock in milliseconds.    *)
(*                                                                         *)
(* A run loads its DAG, which nothing but the context of the request       *)
(* bounds, and then calls the nodes one after the other, those of the      *)
(* enrichment stage too: its loop is sequential.  An attempt may           *)
(* answer or fail at any instant up to its timeout.  The clock shows the   *)
(* time of the timers: what the scheduler and the local computation add is *)
(* not counted.  A call returns as soon as its context is done, which is   *)
(* what gRPC and the Kafka writer do with it.                              *)
(***************************************************************************)
EXTENDS Integers, Sequences

CONSTANTS
  Calls,         \* the nodes a run calls, in order: timeout_ms and max_retries
  DagTimeoutMs,  \* timeout_ms of the DAG
  Instants       \* the instants at which something may happen

ASSUME CallsAssumption    == Calls \in Seq([timeoutMs: Int, maxRetries: Nat])
ASSUME TimeoutAssumption  == DagTimeoutMs \in Int
ASSUME InstantsAssumption == Instants \subseteq Nat /\ 0 \in Instants

defaultNodeTimeout == 500
retryBackoff       == 20

nodeTimeout(n) ==
  IF n.timeoutMs > 0 THEN n.timeoutMs
  ELSE IF DagTimeoutMs > 0 THEN DagTimeoutMs
  ELSE defaultNodeTimeout

\* What callWithResilience may take for a node: every attempt its full timeout,
\* and a backoff between two attempts.
NodeBudget(n) == (n.maxRetries + 1) * nodeTimeout(n) + n.maxRetries * retryBackoff

VARIABLES
  now,       \* the clock
  phase,     \* "load", "attempt", "backoff" or "over"
  node,      \* the node being called
  attempt,   \* the attempt callWithResilience is at, from 0
  due,       \* the instant the timer of the attempt or of the backoff fires
  ctxDone,   \* the context of the request has expired or been cancelled
  loaded,    \* when the DAG was loaded (kept for the properties)
  allowed,   \* the budgets of the nodes called so far (kept for the properties)
  late       \* retries made after the context ended (kept for the properties)

vars == <<now, phase, node, attempt, due, ctxDone, loaded, allowed, late>>

Init ==
  /\ now = 0 /\ phase = "load" /\ node = 0 /\ attempt = 0 /\ due = 0
  /\ ctxDone = FALSE /\ loaded = 0 /\ allowed = 0 /\ late = 0

\* The timer that bounds the current wait, if there is one.
Timed == phase \in {"attempt", "backoff"}

\* A mutation: the backoff is a plain sleep.
MutHeedsContext == phase # "backoff"

\* The wait ends as soon as the context of the request is done: attempts are made
\* under a context derived from it, and the backoff selects on it.
HeedsContext == phase # "over"

Elapse ==
  /\ phase # "over"
  /\ ~(ctxDone /\ HeedsContext)
  /\ \E t \in Instants : /\ now < t
                         /\ Timed => t <= due
                         /\ now' = t
  /\ UNCHANGED <<phase, node, attempt, due, ctxDone, loaded, allowed, late>>

ContextEnds ==
  /\ ~ctxDone
  /\ ctxDone' = TRUE
  /\ UNCHANGED <<now, phase, node, attempt, due, loaded, allowed, late>>

\* callWithResilience of node n starts, or the run is over after the last one.
Begin(n) ==
  /\ node' = n /\ attempt' = 0
  /\ IF n \in DOMAIN Calls
     THEN /\ phase' = "attempt" /\ due' = now + nodeTimeout(Calls[n])
          /\ allowed' = allowed + NodeBudget(Calls[n])
     ELSE /\ phase' = "over" /\ UNCHANGED <<due, allowed>>

Load ==
  /\ phase = "load"
  /\ Begin(1)
  /\ loaded' = now
  /\ UNCHANGED <<now, ctxDone, late>>

\* The load fails, an attempt or the backoff of a fail_fast node gives up.
Abort ==
  /\ phase # "over"
  /\ phase' = "over"
  /\ UNCHANGED <<now, node, attempt, due, ctxDone, loaded, allowed, late>>

\* A mutation: another attempt is always made after the last allowed one.
MutRetriesLeft == attempt <= Calls[node].maxRetries

RetriesLeft == attempt < Calls[node].maxRetries

\* The attempt fails, by an error or by its timeout, and is to be repeated.
AttemptFails ==
  /\ phase = "attempt" /\ RetriesLeft
  /\ phase' = "backoff" /\ due' = now + retryBackoff
  /\ UNCHANGED <<now, node, attempt, ctxDone, loaded, allowed, late>>

BackoffElapses ==
  /\ phase = "backoff" /\ now = due
  /\ phase' = "attempt" /\ attempt' = attempt + 1
  /\ due' = now + nodeTimeout(Calls[node])
  /\ late' = IF ctxDone THEN late + 1 ELSE late
  /\ UNCHANGED <<now, node, ctxDone, loaded, allowed>>

\* The node answered, or its failure is tolerated: the last attempt failed or
\* the backoff was cancelled.
NodeDone ==
  /\ \/ phase = "attempt"
     \/ phase = "backoff" /\ ctxDone
  /\ Begin(node + 1)
  /\ UNCHANGED <<now, ctxDone, loaded, late>>

Next == \/ Elapse \/ ContextEnds \/ Load \/ Abort
        \/ AttemptFails \/ BackoffElapses \/ NodeDone

Spec == Init /\ [][Next]_vars
-----------------------------------------------------------------------------
\* A loaded run is over within the sum of the budgets of its nodes, whatever
\* fails and times out: the timeouts really bound the calls and max_retries the
\* attempts, also without a deadline of the caller (callWithResilience).
RunBudgetKept == node > 0 => now <= loaded + allowed

\* Once the caller has given up, the run makes at most one more retry: the one whose
\* backoff ends at that very instant, where the select may take either case.  The
\* nodes that follow fail in their first attempt and are not repeated, whatever
\* their max_retries (attempt contexts derived from ctx, the select on ctx.Done).
CancelledRunsRetryOnce == late <= 1
=============================================================================
