---------------------------- MODULE TimingProofs ----------------------------
(***************************************************************************)
(* A loaded run keeps its budget for every DAG, every clock and every      *)
(* timeout, and a cancelled one makes at most one more retry.              *)
(***************************************************************************)
EXTENDS Timing, SequenceTheorems, TLAPS

\* The time a node may have spent when its attempt number a starts.
Before(n, a) == a * (nodeTimeout(n) + retryBackoff)

\* Positions and typing.
Typed ==
  /\ now \in Nat /\ due \in Nat /\ loaded \in Nat /\ allowed \in Nat
  /\ late \in Nat /\ node \in Nat /\ attempt \in Nat /\ ctxDone \in BOOLEAN
  /\ phase \in {"load", "attempt", "backoff", "over"}
  /\ phase = "load" <=> node = 0 /\ phase # "over"
  /\ Timed => node \in DOMAIN Calls
  /\ phase = "load" => allowed = 0

\* The timer is set to what is left of the node's budget, and what was allowed
\* before the node began is not touched.
Scheduled ==
  /\ phase = "attempt" =>
       /\ attempt <= Calls[node].maxRetries
       /\ due + NodeBudget(Calls[node])
            <= loaded + allowed + Before(Calls[node], attempt) + nodeTimeout(Calls[node])
  /\ phase = "backoff" =>
       /\ attempt < Calls[node].maxRetries
       /\ due + NodeBudget(Calls[node])
            <= loaded + allowed + Before(Calls[node], attempt + 1)
  /\ Timed => now <= due

\* No retry is late before the context ends; afterwards only a backoff that was
\* under way can still elapse, as any later one would have to wait.
LastRetry ==
  /\ CancelledRunsRetryOnce
  /\ ~ctxDone => late = 0
  /\ ctxDone /\ phase = "backoff" /\ now = due => late = 0

IInv == Typed /\ Scheduled /\ RunBudgetKept /\ LastRetry

\* The timeout of an attempt is positive, whatever the file says (nodeTimeout).
LEMMA TimeoutPositive ==
  ASSUME NEW n \in DOMAIN Calls
  PROVE  /\ Calls[n].maxRetries \in Nat
         /\ nodeTimeout(Calls[n]) \in Nat
         /\ nodeTimeout(Calls[n]) > 0
  <1>. DEFINE c == Calls[n]
  <1>1. c \in [timeoutMs: Int, maxRetries: Nat]
    BY CallsAssumption, LenProperties, ElementOfSeq, Zenon
  <1>2. c.timeoutMs \in Int /\ c.maxRetries \in Nat  BY <1>1
  <1>. HIDE DEF c
  <1>3. nodeTimeout(c) \in Nat /\ nodeTimeout(c) > 0
    <2>1. CASE c.timeoutMs > 0  BY <1>2, <2>1 DEF nodeTimeout
    <2>2. CASE ~(c.timeoutMs > 0) /\ DagTimeoutMs > 0
      BY <1>2, <2>2, TimeoutAssumption DEF nodeTimeout
    <2>3. CASE ~(c.timeoutMs > 0) /\ ~(DagTimeoutMs > 0)
      BY <2>3 DEF nodeTimeout, defaultNodeTimeout
    <2>. QED  BY <2>1, <2>2, <2>3
  <1>. QED  BY <1>2, <1>3 DEF c

\* One more round costs one timeout and one backoff.
LEMMA OneMoreRound ==
  ASSUME NEW a \in Nat, NEW c \in Nat
  PROVE  (a + 1) * c = a * c + c
  BY SMT

\* Fewer rounds cost no more.
LEMMA FewerRounds ==
  ASSUME NEW a \in Nat, NEW b \in Nat, NEW c \in Nat, a <= b
  PROVE  a * c <= b * c
  <1>. DEFINE d == b - a
  <1>1. d \in Nat /\ b = a + d  BY SMT
  <1>2. (a + d) * c = a * c + d * c  BY <1>1, SMT
  <1>3. d * c >= 0  BY <1>1, SMT
  <1>. QED  BY <1>1, <1>2, <1>3, SMT

\* The budget of a node is what the rounds before its last attempt may take, and
\* the last attempt.
LEMMA BudgetInRounds ==
  ASSUME NEW n \in DOMAIN Calls
  PROVE  LET c == Calls[n] IN
         /\ NodeBudget(c) \in Nat
         /\ NodeBudget(c) = Before(c, c.maxRetries) + nodeTimeout(c)
         /\ \A a \in Nat : /\ Before(c, a) \in Nat
                           /\ Before(c, a + 1) = Before(c, a) + nodeTimeout(c) + retryBackoff
                           /\ a <= c.maxRetries => Before(c, a) <= Before(c, c.maxRetries)
  <1>. DEFINE c == Calls[n]
              T == nodeTimeout(c)
              R == c.maxRetries
  <1>1. T \in Nat /\ R \in Nat  BY TimeoutPositive
  <1>2. (R + 1) * T + R * retryBackoff = R * (T + retryBackoff) + T
    <2>1. \A r, t \in Nat : (r + 1) * t + r * 20 = r * (t + 20) + t  BY SMT
    <2>. QED  BY <1>1, <2>1 DEF retryBackoff
  <1>3. \A r, t \in Nat : r * (t + 20) \in Nat  BY SMT
  <1>. HIDE DEF T, R
  <1>4. \A a \in Nat : Before(c, a) = a * (T + retryBackoff)  BY DEF Before, T
  <1>5. \A a \in Nat : Before(c, a) \in Nat  BY <1>1, <1>3, <1>4 DEF retryBackoff
  <1>6. \A a \in Nat : Before(c, a + 1) = Before(c, a) + T + retryBackoff
    <2>. TAKE a \in Nat
    <2>1. (a + 1) * (T + retryBackoff) = a * (T + retryBackoff) + (T + retryBackoff)
      BY <1>1, OneMoreRound DEF retryBackoff
    <2>2. a + 1 \in Nat /\ a * (T + retryBackoff) \in Nat  BY <1>1, <1>3 DEF retryBackoff
    <2>. QED  BY <1>1, <1>4, <2>1, <2>2 DEF retryBackoff
  <1>7. \A a \in Nat : a <= R => Before(c, a) <= Before(c, R)
    BY <1>1, <1>4, FewerRounds DEF retryBackoff
  <1>8. NodeBudget(c) = Before(c, R) + T
    BY <1>1, <1>2, <1>4 DEF NodeBudget, T, R
  <1>. QED  BY <1>1, <1>5, <1>6, <1>7, <1>8 DEF T, R

\* It holds at instant 0.
LEMMA InitHolds == Init => IInv
  <1>. SUFFICES ASSUME Init PROVE IInv  OBVIOUS
  <1>1. Typed  BY DEF Init, Typed, Timed
  <1>2. Scheduled  BY DEF Init, Scheduled, Timed
  <1>3. RunBudgetKept /\ LastRetry
    BY DEF Init, RunBudgetKept, LastRetry, CancelledRunsRetryOnce
  <1>. QED  BY <1>1, <1>2, <1>3 DEF IInv

\* Beginning a node grants its budget; ending the last one needs none.
LEMMA BeginKeeps ==
  ASSUME Typed, NEW n \in Nat \ {0}, NEW l \in Nat,
         now <= l + allowed, loaded' = l, now' = now,
         UNCHANGED <<ctxDone, late>>, Begin(n)
  PROVE  Typed' /\ Scheduled' /\ RunBudgetKept'
  <1>1. CASE n \in DOMAIN Calls
    <2>. DEFINE T == nodeTimeout(Calls[n])
                B == NodeBudget(Calls[n])
    <2>1. /\ T \in Nat /\ B \in Nat /\ Calls[n].maxRetries \in Nat
          /\ Before(Calls[n], 0) \in Nat
          /\ B = Before(Calls[n], Calls[n].maxRetries) + T
          /\ Before(Calls[n], Calls[n].maxRetries) \in Nat
      BY <1>1, TimeoutPositive, BudgetInRounds
    <2>2. /\ phase' = "attempt" /\ due' = now + T /\ allowed' = allowed + B
          /\ node' = n /\ attempt' = 0
      BY <1>1 DEF Begin
    <2>. HIDE DEF T, B
    <2>3. Typed'  BY <1>1, <2>1, <2>2 DEF Typed, Timed
    <2>4. due' + B <= loaded' + allowed' + Before(Calls[n], 0) + T
      BY <2>1, <2>2 DEF Typed
    <2>5. now' <= due' /\ now' <= loaded' + allowed'  BY <2>1, <2>2 DEF Typed
    <2>6. Scheduled'  BY <2>1, <2>2, <2>4, <2>5 DEF Scheduled, Timed, T, B
    <2>. QED  BY <2>3, <2>5, <2>6 DEF RunBudgetKept
  <1>2. CASE n \notin DOMAIN Calls
    <2>1. /\ phase' = "over" /\ due' = due /\ allowed' = allowed
          /\ node' = n /\ attempt' = 0
      BY <1>2 DEF Begin
    <2>. QED  BY <2>1 DEF Typed, Timed, Scheduled, RunBudgetKept
  <1>. QED  BY <1>1, <1>2

\* Within an attempt or a backoff the clock is inside what was allowed.
LEMMA ElapseKeeps ==
  ASSUME IInv, Elapse
  PROVE  IInv'
  <1>1. /\ now' \in Nat /\ now < now' /\ (Timed => now' <= due) /\ phase # "over"
        /\ UNCHANGED <<phase, node, attempt, due, ctxDone, loaded, allowed, late>>
    BY InstantsAssumption DEF Elapse
  <1>2. ~ctxDone  BY DEF Elapse, HeedsContext
  <1>3. Typed' /\ Scheduled'
    BY <1>1 DEF IInv, Typed, Scheduled, Timed, NodeBudget, Before, nodeTimeout
  <1>4. RunBudgetKept'
    <2>1. CASE phase = "load"  BY <1>1, <2>1 DEF IInv, Typed, RunBudgetKept
    <2>2. CASE Timed
      <3>. DEFINE c == Calls[node]
                  a == attempt
                  T == nodeTimeout(c)
                  B == NodeBudget(c)
      <3>1. node \in DOMAIN Calls  BY <2>2 DEF IInv, Typed
      <3>2. /\ T \in Nat /\ B \in Nat /\ c.maxRetries \in Nat
            /\ B = Before(c, c.maxRetries) + T
            /\ Before(c, a) \in Nat /\ Before(c, a + 1) \in Nat
            /\ Before(c, c.maxRetries) \in Nat
            /\ a <= c.maxRetries => Before(c, a) <= Before(c, c.maxRetries)
            /\ a + 1 <= c.maxRetries => Before(c, a + 1) <= Before(c, c.maxRetries)
        BY <3>1, TimeoutPositive, BudgetInRounds DEF IInv, Typed
      <3>3. \/ /\ a <= c.maxRetries
               /\ due + B <= loaded + allowed + Before(c, a) + T
            \/ /\ a < c.maxRetries
               /\ due + B <= loaded + allowed + Before(c, a + 1)
        BY <2>2 DEF IInv, Scheduled, Timed
      <3>. HIDE DEF c, T, B
      <3>4. due <= loaded + allowed  BY <3>2, <3>3 DEF IInv, Typed
      <3>. QED  BY <1>1, <2>2, <3>4 DEF IInv, Typed, RunBudgetKept
    <2>. QED  BY <1>1, <2>1, <2>2 DEF IInv, Typed, Timed
  <1>5. LastRetry'  BY <1>1, <1>2 DEF IInv, LastRetry, CancelledRunsRetryOnce
  <1>. QED  BY <1>3, <1>4, <1>5 DEF IInv

\* A backoff is what the round has left after its attempt.
LEMMA AttemptFailsKeeps ==
  ASSUME IInv, AttemptFails
  PROVE  Typed' /\ Scheduled'
  <1>. DEFINE c == Calls[node]
              T == nodeTimeout(c)
              B == NodeBudget(c)
  <1>1. node \in DOMAIN Calls /\ attempt \in Nat /\ now \in Nat /\ due \in Nat
        /\ now <= due /\ loaded \in Nat /\ allowed \in Nat
    BY DEF IInv, Typed, Scheduled, Timed, AttemptFails
  <1>2. /\ T \in Nat /\ B \in Nat /\ Before(c, attempt) \in Nat
        /\ Before(c, attempt + 1) = Before(c, attempt) + T + retryBackoff
    BY <1>1, TimeoutPositive, BudgetInRounds
  <1>3. due + B <= loaded + allowed + Before(c, attempt) + T
    BY DEF IInv, Scheduled, AttemptFails
  <1>4. /\ phase' = "backoff" /\ due' = now + 20 /\ attempt < c.maxRetries
        /\ UNCHANGED <<now, node, attempt, ctxDone, loaded, allowed, late>>
    BY DEF AttemptFails, RetriesLeft, retryBackoff
  <1>. HIDE DEF T, B, c
  <1>5. due' + B <= loaded' + allowed' + Before(c, attempt' + 1)
    BY <1>1, <1>2, <1>3, <1>4 DEF retryBackoff
  <1>6. Scheduled'  BY <1>1, <1>4, <1>5 DEF Scheduled, Timed, B, c
  <1>7. Typed'  BY <1>1, <1>4 DEF IInv, Typed, Timed, AttemptFails
  <1>. QED  BY <1>6, <1>7

\* The next attempt gets the first part of the next round.
LEMMA BackoffElapsesKeeps ==
  ASSUME IInv, BackoffElapses
  PROVE  Typed' /\ Scheduled'
  <1>. DEFINE c == Calls[node]
              T == nodeTimeout(c)
              B == NodeBudget(c)
  <1>1. node \in DOMAIN Calls /\ attempt \in Nat /\ now \in Nat /\ now = due /\ late \in Nat
        /\ loaded \in Nat /\ allowed \in Nat
    BY DEF IInv, Typed, Timed, BackoffElapses
  <1>2. T \in Nat /\ B \in Nat /\ c.maxRetries \in Nat /\ Before(c, attempt + 1) \in Nat
    BY <1>1, TimeoutPositive, BudgetInRounds
  <1>3. attempt < c.maxRetries /\ due + B <= loaded + allowed + Before(c, attempt + 1)
    BY DEF IInv, Scheduled, BackoffElapses
  <1>4. /\ phase' = "attempt" /\ due' = now + T /\ attempt' = attempt + 1
        /\ late' \in Nat /\ UNCHANGED <<now, node, ctxDone, loaded, allowed>>
    BY <1>1 DEF BackoffElapses
  <1>. HIDE DEF T, B, c
  <1>5. due' + B <= loaded' + allowed' + Before(c, attempt') + T
    BY <1>1, <1>2, <1>3, <1>4
  <1>6. attempt' <= c.maxRetries /\ now' <= due'  BY <1>1, <1>2, <1>3, <1>4
  <1>7. Scheduled'  BY <1>4, <1>5, <1>6 DEF Scheduled, Timed, T, B, c
  <1>8. Typed'  BY <1>1, <1>2, <1>4 DEF IInv, Typed, Timed, BackoffElapses
  <1>. QED  BY <1>7, <1>8

\* Beginning a node makes no retry and waits for no backoff.
LEMMA BeginRetries ==
  ASSUME LastRetry, NEW n, Begin(n), UNCHANGED <<ctxDone, late>>
  PROVE  LastRetry'
  BY DEF LastRetry, CancelledRunsRetryOnce, Begin

\* Every step keeps it.
LEMMA StepKeeps == IInv /\ [Next]_vars => IInv'
  <1>. SUFFICES ASSUME IInv, [Next]_vars PROVE IInv'  OBVIOUS
  <1>. USE DEF IInv
  <1>elapse. CASE Elapse  BY <1>elapse, ElapseKeeps
  <1>context. CASE ContextEnds
    BY <1>context DEF ContextEnds, Typed, Scheduled, Timed, RunBudgetKept,
                      LastRetry, CancelledRunsRetryOnce, NodeBudget, Before, nodeTimeout
  <1>load. CASE Load
    <2>1. Typed' /\ Scheduled' /\ RunBudgetKept'
      BY <1>load, BeginKeeps DEF Load, Typed
    <2>. QED  BY <1>load, <2>1, BeginRetries DEF Load
  <1>abort. CASE Abort
    BY <1>abort DEF Abort, Typed, Scheduled, Timed, RunBudgetKept, LastRetry,
                    CancelledRunsRetryOnce
  <1>fails. CASE AttemptFails
    <2>1. now' = now /\ due' > now' /\ UNCHANGED <<ctxDone, late, node, loaded, allowed>>
      BY <1>fails DEF AttemptFails, Typed, retryBackoff
    <2>2. LastRetry'  BY <2>1 DEF LastRetry, CancelledRunsRetryOnce, Typed
    <2>. QED  BY <1>fails, <2>1, <2>2, AttemptFailsKeeps DEF RunBudgetKept
  <1>again. CASE BackoffElapses
    <2>1. /\ phase = "backoff" /\ now = due /\ phase' = "attempt"
          /\ late' = IF ctxDone THEN late + 1 ELSE late
          /\ UNCHANGED <<now, node, ctxDone, loaded, allowed>>
      BY <1>again DEF BackoffElapses
    <2>2. LastRetry'  BY <2>1 DEF LastRetry, CancelledRunsRetryOnce, Typed
    <2>. QED  BY <1>again, <2>1, <2>2, BackoffElapsesKeeps DEF RunBudgetKept
  <1>next. CASE NodeDone
    <2>1. node \in Nat /\ node # 0 /\ node + 1 \in Nat \ {0}
      BY <1>next DEF NodeDone, Typed
    <2>2. Typed' /\ Scheduled' /\ RunBudgetKept'
      BY <1>next, <2>1, BeginKeeps DEF NodeDone, Typed, RunBudgetKept
    <2>. QED  BY <1>next, <2>2, BeginRetries DEF NodeDone
  <1>same. CASE vars' = vars
    BY <1>same DEF vars, Typed, Scheduled, Timed, RunBudgetKept, LastRetry,
                   CancelledRunsRetryOnce, NodeBudget, Before, nodeTimeout
  <1>. QED
    BY <1>elapse, <1>context, <1>load, <1>abort, <1>fails, <1>again, <1>next, <1>same DEF Next

\* For every DAG, whatever its timeouts and its retries: a loaded run is over
\* within the budgets of its nodes (callWithResilience, nodeTimeout).
THEOREM BudgetsHold == Spec => []RunBudgetKept
  <1>1. IInv => RunBudgetKept  BY DEF IInv
  <1>. QED  BY InitHolds, StepKeeps, <1>1, PTL DEF Spec

\* For every DAG, whatever its retries, a run whose context is done makes at most
\* one more retry, at whatever point of whatever node the context ends
\* (callWithResilience).
THEOREM CancelledRetries == Spec => []CancelledRunsRetryOnce
  <1>1. IInv => CancelledRunsRetryOnce  BY DEF IInv, LastRetry
  <1>. QED  BY InitHolds, StepKeeps, <1>1, PTL DEF Spec
-----------------------------------------------------------------------------
(* The time a DAG file allows.                                             *)

\* R[n] is the sum of the budgets of the nodes from n on.
BudgetsFrom(R) ==
  /\ R \in [1 .. Len(Calls) + 1 -> Nat]
  /\ R[Len(Calls) + 1] = 0
  /\ \A n \in 1 .. Len(Calls) : R[n] = NodeBudget(Calls[n]) + R[n + 1]

\* What has been allowed, and what the nodes to come will be, add up to the total.
Adds(R) ==
  node > 0 =>
    /\ node <= Len(Calls) + 1
    /\ node <= Len(Calls) => allowed + R[node + 1] = R[1]
    /\ node = Len(Calls) + 1 => allowed = R[1]

\* The nodes of a run are those of its DAG.
LEMMA CallIndices == Len(Calls) \in Nat /\ DOMAIN Calls = 1 .. Len(Calls)
  BY CallsAssumption, LenProperties

\* Beginning a node moves its budget from what is to come to what is allowed.
LEMMA BeginAdds ==
  ASSUME NEW R, BudgetsFrom(R), Typed, NEW n \in Nat, Begin(n),
         \/ n = 1 /\ allowed = 0
         \/ n > 1 /\ n <= Len(Calls) + 1 /\ allowed + R[n] = R[1]
  PROVE  Adds(R)'
  <1>types. /\ Len(Calls) \in Nat /\ allowed \in Nat /\ R[1] \in Nat
            /\ n \in 1 .. Len(Calls) + 1 /\ R[n] \in Nat /\ allowed + R[n] = R[1]
    BY CallIndices DEF BudgetsFrom, Typed
  <1>call. CASE n \in 1 .. Len(Calls)
    <2>1. node' = n /\ allowed' = allowed + NodeBudget(Calls[n])
      BY <1>call, CallIndices DEF Begin
    <2>2. R[n] = NodeBudget(Calls[n]) + R[n + 1]
      BY <1>call DEF BudgetsFrom
    <2>in. n + 1 \in 1 .. Len(Calls) + 1  BY <1>call, <1>types
    <2>nat. R[n + 1] \in Nat  BY <2>in DEF BudgetsFrom
    <2>3. NodeBudget(Calls[n]) \in Nat
      BY <1>call, CallIndices, BudgetInRounds
    <2>4. allowed' + R[n + 1] = R[1]  BY <1>types, <2>nat, <2>1, <2>2, <2>3
    <2>. QED  BY <1>call, <1>types, <2>1, <2>4 DEF Adds
  <1>over. CASE n = Len(Calls) + 1
    <2>1. node' = n /\ allowed' = allowed
      BY <1>over, <1>types, CallIndices DEF Begin
    <2>2. R[n] = 0  BY <1>over DEF BudgetsFrom
    <2>. QED  BY <1>over, <1>types, <2>1, <2>2 DEF Adds
  <1>. QED  BY <1>types, <1>call, <1>over

\* Every step keeps the sum.
LEMMA StepAdds ==
  ASSUME NEW R, BudgetsFrom(R), IInv, Adds(R), [Next]_vars
  PROVE  Adds(R)'
  <1>typed. Typed  BY DEF IInv
  <1>load. CASE Load
    <2>1. Begin(1) /\ allowed = 0  BY <1>load, <1>typed DEF Load, Typed
    <2>. QED  BY <1>typed, <2>1, BeginAdds
  <1>next. CASE NodeDone
    <2>1. node \in DOMAIN Calls /\ node \in Nat
      BY <1>next, <1>typed DEF NodeDone, Typed, Timed
    <2>2. node \in 1 .. Len(Calls) /\ Len(Calls) \in Nat  BY <2>1, CallIndices
    <2>3. allowed + R[node + 1] = R[1]  BY <2>2 DEF Adds
    <2>. QED  BY <1>next, <1>typed, <2>2, <2>3, BeginAdds DEF NodeDone
  <1>else. CASE UNCHANGED <<node, allowed>>
    BY <1>else DEF Adds
  <1>. QED
    BY <1>load, <1>next, <1>else
    DEF Next, Elapse, ContextEnds, Abort, AttemptFails, BackoffElapses, vars

\* So the clock is within the total.
LEMMA TotalTime ==
  ASSUME NEW R, BudgetsFrom(R), IInv, Adds(R), node > 0
  PROVE  now <= loaded + R[1]
  <1>1. /\ now \in Nat /\ loaded \in Nat /\ allowed \in Nat /\ node \in Nat
        /\ now <= loaded + allowed
    BY DEF IInv, Typed, RunBudgetKept
  <1>2. Len(Calls) \in Nat /\ R[1] \in Nat
    BY CallIndices DEF BudgetsFrom
  <1>3. node <= Len(Calls) => R[node + 1] \in Nat /\ allowed + R[node + 1] = R[1]
    BY <1>1, <1>2 DEF BudgetsFrom, Adds
  <1>4. allowed <= R[1]  BY <1>1, <1>2, <1>3 DEF Adds
  <1>. QED  BY <1>1, <1>2, <1>4

\* A loaded run is over within the sum of the budgets of all nodes of its DAG, known
\* before it starts, for every DAG (callWithResilience, nodeTimeout).
THEOREM RunsEndInTime ==
  ASSUME NEW R, BudgetsFrom(R)
  PROVE  Spec => [](node > 0 => now <= loaded + R[1])
  <1>init. Init => Adds(R)  BY DEF Init, Adds
  <1>step. IInv /\ Adds(R) /\ [Next]_vars => Adds(R)'  BY StepAdds
  <1>time. IInv /\ Adds(R) => (node > 0 => now <= loaded + R[1])  BY TotalTime
  <1>. QED  BY <1>init, <1>step, <1>time, InitHolds, StepKeeps, PTL DEF Spec

\* The nodes of config/dag/acme_insurance/auto/claim.fnol.yaml, version 4.
ShippedFile ==
  LET CallOf(timeoutMs, maxRetries) == [timeoutMs |-> timeoutMs, maxRetries |-> maxRetries]
  IN  <<CallOf(40, 1), CallOf(40, 1), CallOf(40, 1), CallOf(80, 0), CallOf(100, 0)>>

\* With the DAG file the repository ships, a loaded run is over after 480 ms at the
\* latest, on every clock, whatever its services and its caller do (Run).
THEOREM ShippedRunsEndInTime ==
  ASSUME Calls = ShippedFile
  PROVE  Spec => [](node > 0 => now <= loaded + 480)
  <1>. DEFINE R == [n \in 1 .. 6 |-> CASE n = 1 -> 480 [] n = 2 -> 380 [] n = 3 -> 280
                                       [] n = 4 -> 180 [] n = 5 -> 100 [] n = 6 -> 0]
  <1>calls. /\ Len(Calls) = 5
            /\ \A n \in {1, 2, 3} : Calls[n].timeoutMs = 40 /\ Calls[n].maxRetries = 1
            /\ Calls[4].timeoutMs = 80 /\ Calls[4].maxRetries = 0
            /\ Calls[5].timeoutMs = 100 /\ Calls[5].maxRetries = 0
    BY DEF ShippedFile
  <1>budgets. /\ \A n \in {1, 2, 3} : NodeBudget(Calls[n]) = 100
              /\ NodeBudget(Calls[4]) = 80 /\ NodeBudget(Calls[5]) = 100
    BY <1>calls DEF NodeBudget, nodeTimeout, retryBackoff
  <1>sums. /\ R \in [1 .. 6 -> Nat]
           /\ R[1] = 480 /\ R[2] = 380 /\ R[3] = 280 /\ R[4] = 180 /\ R[5] = 100 /\ R[6] = 0
    OBVIOUS
  <1>. HIDE DEF R
  <1>from. BudgetsFrom(R)
    BY <1>calls, <1>budgets, <1>sums DEF BudgetsFrom
  <1>init. Init => Adds(R)  BY DEF Init, Adds
  <1>step. IInv /\ Adds(R) /\ [Next]_vars => Adds(R)'  BY <1>from, StepAdds
  <1>time. IInv /\ Adds(R) => (node > 0 => now <= loaded + 480)
    BY <1>from, <1>sums, TotalTime
  <1>. QED  BY <1>init, <1>step, <1>time, InitHolds, StepKeeps, PTL DEF Spec
=============================================================================
