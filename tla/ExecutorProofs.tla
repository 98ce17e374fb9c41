--------------------------- MODULE ExecutorProofs ---------------------------
(***************************************************************************)
(* Proofs about the executor, for every set of runs, claims and DAG files. *)
(***************************************************************************)
EXTENDS ExecutorProperties, SequenceTheorems, TLAPS

(* Facts about the operators the specification is built from.              *)

\* The score is a number of hundredths between 0 and 100 (Score).
LEMMA ScoreType ==
  ASSUME NEW f
  PROVE  Score(f) \in Scores
<1> DEFINE a == StatusWeight(f.policy_status)
           b == IF f.policy_coverage_type = "" THEN 5 ELSE 0
           c == IF ParseBool(f.address_valid) THEN 0 ELSE 10
<1>1. a \in {0, 15, 25, 30}
  BY DEF StatusWeight
<1>2. b \in {0, 5}
  OBVIOUS
<1>3. c \in {0, 10}
  OBVIOUS
<1>4. Score(f) = IF baseScore + a + b + c > maxScore THEN maxScore
                 ELSE baseScore + a + b + c
  BY DEF Score
<1> HIDE DEF a, b, c
<1>5. QED
  BY <1>1, <1>2, <1>3, <1>4 DEF Scores, baseScore, maxScore

\* An address is valid or not (Normalize).
LEMMA NormalizeType ==
  ASSUME NEW a
  PROVE  Normalize(a).valid \in BOOLEAN
BY DEF Normalize

\* Absorbing an answer keeps the locals of Run well typed.
LEMMA AbsorbType ==
  ASSUME NEW l \in Local, NEW c \in Claims, NEW s \in Stages, NEW n \in Node,
         Recognized(n, s)
  PROVE  Absorb(l, c, n.service) \in Local
<1>1. n.service \in {"claimant-id-hashing-svc", "address-normalization-svc",
                     "policy-lookup-svc", "model-service", "kafka-publisher"}
  BY DEF Recognized, Stages
<1>2. CASE n.service = "claimant-id-hashing-svc"
  BY <1>2 DEF Absorb, Local
<1>3. CASE n.service = "address-normalization-svc"
  BY <1>3, NormalizeType DEF Absorb, Local, Addresses
<1>4. CASE n.service = "policy-lookup-svc"
  BY <1>4 DEF Absorb, Local
<1>5. CASE n.service = "model-service"
  BY <1>5, ScoreType DEF Absorb, Local
<1>6. CASE n.service = "kafka-publisher"
  BY <1>6 DEF Absorb
<1>7. QED
  BY <1>1, <1>2, <1>3, <1>4, <1>5, <1>6

\* So does absorbing a nil response.
LEMMA AbsorbNilType ==
  ASSUME NEW l \in Local, NEW s \in Stages, NEW n \in Node, Recognized(n, s)
  PROVE  AbsorbNil(l, n.service) \in Local
<1>1. n.service \in {"claimant-id-hashing-svc", "address-normalization-svc",
                     "policy-lookup-svc", "model-service", "kafka-publisher"}
  BY DEF Recognized, Stages
<1>2. CASE n.service = "claimant-id-hashing-svc"
  BY <1>2 DEF AbsorbNil, Local
<1>3. CASE n.service = "address-normalization-svc"
  BY <1>3 DEF AbsorbNil, Local, Addresses
<1>4. CASE n.service = "policy-lookup-svc"
  BY <1>4 DEF AbsorbNil, Local
<1>5. CASE n.service = "model-service"
  BY <1>5 DEF AbsorbNil, Local
<1>6. CASE n.service = "kafka-publisher"
  BY <1>6 DEF AbsorbNil
<1>7. QED
  BY <1>1, <1>2, <1>3, <1>4, <1>5, <1>6
-----------------------------------------------------------------------------
(* Type correctness.                                                       *)

\* What ties the loop variables of a run together: the histories have an entry
\* per node of the loaded file; a call is made for a node of the current stage
\* that applies to the tenant; there is no score before the scoring loop, and
\* always one after it; the event being published is the one the locals give.
Shape(r) ==
  /\ Len(outcome[r]) = Len(cfg[r].nodes)
  /\ Len(tries[r]) = Len(cfg[r].nodes)
  /\ call[r] # "none" => stage[r] \in Stages /\ Runnable(r)
  /\ stage[r] = "publishing" => local[r].score # None
  /\ stage[r] = "publishing" /\ call[r] # "none" => event[r] = EventOf(r)
  /\ stage[r] \in {"version", "file", "enrichment"} => local[r].score = None

TypeInv == TypeOK /\ \A r \in Runs : Shape(r)

\* Shape holds at first.
LEMMA TypeInit == Init => TypeInv
<1> SUFFICES ASSUME Init PROVE TypeInv
  OBVIOUS
<1>1. \A c \in Claims : InitLocal(c) \in Local
  BY DEF InitLocal, Local, Addresses
<1>2. [nodes |-> <<>>] \in Config
  BY DEF Config
<1>3. TypeOK
  BY <1>1, <1>2 DEF Init, TypeOK, Built, Stages
<1>4. \A r \in Runs : Shape(r)
  BY DEF Init, Shape, InitLocal, Stages
<1>5. QED
  BY <1>3, <1>4 DEF TypeInv

\* The two steps of Load keep it.
LEMMA TypeLoad ==
  ASSUME TypeInv, NEW r \in Runs,
         ResolveVersion(r) \/ ResolveVersionFails(r) \/ ReadConfig(r)
  PROVE  TypeInv'
<1> USE DEF TypeInv, env, history, kafka, EventOf
<1>1. CASE ResolveVersion(r)
  BY <1>1 DEF ResolveVersion, TypeOK, Shape, At, Stages, Runnable, AtNode, CurrentNode
<1>2. CASE ResolveVersionFails(r)
  BY <1>2 DEF ResolveVersionFails, TypeOK, Shape, At, Stages, Runnable, AtNode, CurrentNode
<1>3. CASE ReadConfig(r) /\ disk[Path(claim[r])] \in Configs
  <2> DEFINE file == disk[Path(claim[r])]
  <2>1. file \in Config /\ file.nodes \in Seq(Node) /\ Len(file.nodes) \in Nat
    BY <1>3, ConfigsAssumption DEF Config
  <2>2. /\ [i \in 1 .. Len(file.nodes) |-> "notrun"] \in Seq(NodeOutcome)
        /\ [i \in 1 .. Len(file.nodes) |-> 0] \in Seq(Nat)
        /\ Len([i \in 1 .. Len(file.nodes) |-> "notrun"]) = Len(file.nodes)
        /\ Len([i \in 1 .. Len(file.nodes) |-> 0]) = Len(file.nodes)
    BY <2>1 DEF NodeOutcome
  <2> HIDE DEF file
  <2>3. /\ cfg' = [cfg EXCEPT ![r] = file]
        /\ stage' = [stage EXCEPT ![r] = "enrichment"]
        /\ outcome' = [outcome EXCEPT ![r] = [i \in 1 .. Len(file.nodes) |-> "notrun"]]
        /\ tries' = [tries EXCEPT ![r] = [i \in 1 .. Len(file.nodes) |-> 0]]
        /\ stage[r] = "file"
        /\ UNCHANGED <<env, answer, idx, call, attempt, local, kafka>>
    BY <1>3 DEF ReadConfig, file, At
  <2>4. TypeOK'
    BY <2>1, <2>2, <2>3 DEF TypeOK, Stages
  <2>5. ASSUME NEW q \in Runs PROVE Shape(q)'
    BY <2>1, <2>2, <2>3 DEF TypeOK, Shape, Stages, Runnable, AtNode, CurrentNode
  <2>6. QED
    BY <2>4, <2>5
<1>4. CASE ReadConfig(r) /\ disk[Path(claim[r])] \notin Configs
  BY <1>4 DEF ReadConfig, TypeOK, Shape, At, Stages, Runnable, AtNode, CurrentNode
<1>5. QED
  BY <1>1, <1>2, <1>3, <1>4

\* The node a run is at is a node of its file, and its index has a history.
LEMMA NodeAtHand ==
  ASSUME TypeInv, NEW r \in Runs, AtNode(r)
  PROVE  /\ CurrentNode(r) \in Node
         /\ idx[r] \in DOMAIN outcome[r]
         /\ idx[r] \in DOMAIN tries[r]
BY DEF TypeInv, TypeOK, Shape, AtNode, CurrentNode, Config

\* An attempt of a publish node, be it the first or a repeated one, sends the event
\* that the locals give.
LEMMA AttemptsSend ==
  ASSUME TypeInv, NEW r \in Runs, BeginCall(r) \/ BackoffElapses(r)
  PROVE  /\ stage[r] \in Stages /\ Runnable(r)
         /\ \E k \in Nat : StartAttempt(r, k, event'[r])
         /\ Publishes(r) <=> stage[r] = "publishing"
         /\ Publishes(r) => event'[r] = EventOf(r)
         /\ event' = event \/ event' = [event EXCEPT ![r] = EventOf(r)]
         /\ UNCHANGED <<env, stage, answer, cfg, idx, local, outcome, topic>>
<1> USE DEF TypeInv, TypeOK, Shape, In
<1>1. stage[r] \in Stages /\ Runnable(r)
  BY DEF BeginCall, BackoffElapses
<1>2. Publishes(r) <=> stage[r] = "publishing"
  BY <1>1 DEF Publishes, Runnable, RunsIn, Recognized, Stages
<1>3. CASE BeginCall(r)
  BY <1>1, <1>2, <1>3 DEF BeginCall, BuildEvent
<1>4. CASE BackoffElapses(r)
  <2>1. attempt[r] + 1 \in Nat /\ event' = event
    BY <1>4 DEF BackoffElapses
  <2>2. StartAttempt(r, attempt[r] + 1, event'[r])
    BY <1>4, <2>1 DEF BackoffElapses
  <2>3. Publishes(r) => event'[r] = EventOf(r)
    BY <1>2, <1>4, <2>1 DEF BackoffElapses
  <2>4. QED
    BY <1>1, <1>2, <1>4, <2>1, <2>2, <2>3 DEF BackoffElapses
<1>5. QED
  BY <1>3, <1>4

\* Starting an attempt keeps it: only a publish node of the publishing stage puts
\* an event in flight, and that stage has a score.
LEMMA TypeStartAttempt ==
  ASSUME TypeInv, NEW r \in Runs, BeginCall(r) \/ BackoffElapses(r)
  PROVE  TypeInv'
<1> USE DEF TypeInv, env
<1>k. PICK k \in Nat : StartAttempt(r, k, event'[r])
  BY AttemptsSend
<1>same. UNCHANGED <<env, stage, answer, cfg, idx, local, outcome, topic>>
  BY AttemptsSend
<1>1. AtNode(r) /\ Runnable(r) /\ stage[r] \in Stages
  BY AttemptsSend DEF Runnable
<1>2. /\ [tries EXCEPT ![r][idx[r]] = @ + 1] \in [Runs -> Seq(Nat)]
      /\ \A q \in Runs : Len(tries'[q]) = Len(tries[q])
  BY <1>1, <1>k, NodeAtHand DEF TypeOK, StartAttempt
<1>event. /\ event' \in [Runs -> Built]
          /\ \A q \in Runs : q # r => event'[q] = event[q]
          /\ stage[r] = "publishing" => event'[r] = EventOf(r)
  <2>1. EventOf(r) \in Built
    BY DEF TypeOK, EventOf, Local, Built
  <2>2. event' = event \/ event' = [event EXCEPT ![r] = EventOf(r)]
    BY AttemptsSend
  <2>3. stage[r] = "publishing" => event'[r] = EventOf(r)
    BY AttemptsSend
  <2>4. event \in [Runs -> Built]
    BY DEF TypeOK
  <2>5. QED
    BY <2>1, <2>2, <2>3, <2>4
<1>3. Publishes(r) => Message(r, k, event'[r]) \in Event
  <2>1. Publishes(r) => local[r].score \in Scores /\ local[r].status \in {"scored", "degraded"}
    BY AttemptsSend DEF TypeOK, Shape, Local
  <2>2. Publishes(r) => event'[r].score = local[r].score /\ event'[r].status = local[r].status
    <3>1. Publishes(r) => event'[r] = EventOf(r)
      BY AttemptsSend
    <3>2. QED
      BY <3>1 DEF EventOf
  <2>3. idx[r] \in Nat
    BY DEF TypeOK
  <2>4. QED
    BY <2>1, <2>2, <2>3 DEF Message, Event
<1>4. TypeOK'
  BY <1>k, <1>same, <1>2, <1>3, <1>event DEF TypeOK, StartAttempt, AttemptContext
<1>5. ASSUME NEW q \in Runs PROVE Shape(q)'
  BY <1>k, <1>same, <1>1, <1>2, <1>event
  DEF TypeOK, StartAttempt, AttemptContext, Shape, Runnable, AtNode, CurrentNode, EventOf
<1>6. QED
  BY <1>4, <1>5

\* A successful node keeps it, whatever well typed locals it leaves, as long as
\* it scores only in the scoring stage.
LEMMA TypeNodeDone ==
  ASSUME TypeInv, NEW r \in Runs, AtNode(r), stage[r] \in Stages,
         NEW l \in Local, l.score # local[r].score => stage[r] = "scoring",
         NodeDone(r, l),
         UNCHANGED <<env, stage, answer, cfg, attempt, tries, kafka>>
  PROVE  TypeInv'
<1> USE DEF TypeInv, env, kafka, EventOf
<1>1. /\ [outcome EXCEPT ![r][idx[r]] = "ok"] \in [Runs -> Seq(NodeOutcome)]
      /\ \A q \in Runs : Len(outcome'[q]) = Len(outcome[q])
  BY NodeAtHand DEF TypeOK, NodeDone, NodeOutcome
<1>2. TypeOK'
  BY <1>1 DEF TypeOK, NodeDone
<1>3. ASSUME NEW q \in Runs PROVE Shape(q)'
  BY <1>1 DEF TypeOK, NodeDone, Shape, Stages, Runnable, AtNode, CurrentNode
<1>4. QED
  BY <1>2, <1>3

\* A failed node keeps it.
LEMMA TypeNodeFailed ==
  ASSUME TypeInv, NEW r \in Runs, AtNode(r),
         NodeFailed(r),
         UNCHANGED <<env, stage, cfg, attempt, tries, kafka>>
  PROVE  TypeInv'
<1> USE DEF TypeInv, env, kafka, EventOf
<1>1. ASSUME NEW o \in NodeOutcome
      PROVE  /\ [outcome EXCEPT ![r][idx[r]] = o] \in [Runs -> Seq(NodeOutcome)]
             /\ \A q \in Runs : Len([outcome EXCEPT ![r][idx[r]] = o][q]) = Len(outcome[q])
  BY NodeAtHand DEF TypeOK
<1> DEFINE l == [local[r] EXCEPT !.status = StatusAfterFailure(r)]
<1>2. l \in Local /\ l.score = local[r].score
  <2>1. local[r] \in Local
    BY DEF TypeOK
  <2>2. StatusAfterFailure(r) \in {"scored", "degraded"}
    BY <2>1 DEF StatusAfterFailure, Local
  <2>3. QED
    BY <2>1, <2>2 DEF Local
<1> HIDE DEF l
<1>3. CASE NodeFailureHandled(CurrentNode(r))
  <2>1. /\ local' = [local EXCEPT ![r] = l]
        /\ outcome' = [outcome EXCEPT ![r][idx[r]] = "handled"]
        /\ idx' = [idx EXCEPT ![r] = @ + 1]
        /\ call' = [call EXCEPT ![r] = "none"]
        /\ answer' = answer
    BY <1>3 DEF NodeFailed, l
  <2>2. TypeOK'
    BY <1>1, <1>2, <2>1 DEF TypeOK, NodeOutcome
  <2>3. ASSUME NEW q \in Runs PROVE Shape(q)'
    BY <1>1, <1>2, <2>1 DEF TypeOK, NodeOutcome, Shape, Runnable, AtNode, CurrentNode
  <2>4. QED
    BY <2>2, <2>3
<1>4. CASE ~NodeFailureHandled(CurrentNode(r))
  <2>1. TypeOK'
    BY <1>1, <1>4 DEF TypeOK, NodeFailed, NodeOutcome
  <2>2. ASSUME NEW q \in Runs PROVE Shape(q)'
    BY <1>1, <1>4 DEF TypeOK, NodeFailed, NodeOutcome, Shape, Runnable, AtNode, CurrentNode
  <2>3. QED
    BY <2>1, <2>2
<1>5. QED
  BY <1>3, <1>4

\* Every step of a run keeps it.
LEMMA TypeRunStep ==
  ASSUME TypeInv, NEW r \in Runs, RunStep(r)
  PROVE  TypeInv'
<1> USE DEF EventOf
<1>1. CASE ReadConfig(r)
  BY <1>1, TypeLoad
<1>2. CASE SkipNode(r)
  BY <1>2 DEF SkipNode, In, TypeInv, TypeOK, Shape, env, history, kafka,
              Runnable, AtNode, CurrentNode
<1>3. CASE BeginCall(r)
  BY <1>3, TypeStartAttempt
<1>4. CASE SkipAllAttempts(r)
  <2> DEFINE s == CurrentNode(r).service
  <2>1. /\ stage[r] \in Stages /\ AtNode(r) /\ Recognized(CurrentNode(r), stage[r])
        /\ local[r] \in Local
    BY <1>4 DEF SkipAllAttempts, In, Runnable, RunsIn, TypeInv, TypeOK
  <2>2. AbsorbNil(local[r], s) \in Local
    BY <2>1, AbsorbNilType, NodeAtHand
  <2>3. AbsorbNil(local[r], s).score # local[r].score => stage[r] = "scoring"
    BY <2>1 DEF AbsorbNil, Recognized, Stages, Local
  <2>4. QED
    BY <1>4, <2>1, <2>2, <2>3, TypeNodeDone DEF SkipAllAttempts
<1>5. CASE AttemptSucceeds(r)
  <2> DEFINE l == Absorb(local[r], claim[r], CurrentNode(r).service)
  <2>1. /\ stage[r] \in Stages /\ AtNode(r) /\ Recognized(CurrentNode(r), stage[r])
        /\ local[r] \in Local /\ claim[r] \in Claims
    BY <1>5 DEF AttemptSucceeds, In, Shape, Runnable, RunsIn, TypeInv, TypeOK
  <2>2. l \in Local
    BY <2>1, AbsorbType, NodeAtHand
  <2>3. l.score # local[r].score => stage[r] = "scoring"
    BY <2>1 DEF Absorb, Recognized, Stages, Local
  <2>4. QED
    BY <1>5, <2>1, <2>2, <2>3, TypeNodeDone DEF AttemptSucceeds
<1>6. CASE AttemptFails(r)
  BY <1>6 DEF AttemptFails, In, TypeInv, TypeOK, Shape, env, history, kafka,
              Runnable, AtNode, CurrentNode
<1>7. CASE LastAttemptFails(r)
  <2>1. AtNode(r)
    BY <1>7 DEF LastAttemptFails, In, TypeInv, Shape, Runnable
  <2>2. QED
    BY <1>7, <2>1, TypeNodeFailed DEF LastAttemptFails
<1>8. CASE BackoffElapses(r)
  BY <1>8, TypeStartAttempt
<1>9. CASE BackoffCancelled(r)
  <2>1. AtNode(r)
    BY <1>9 DEF BackoffCancelled, In, TypeInv, Shape, Runnable
  <2>2. QED
    BY <1>9, <2>1, TypeNodeFailed DEF BackoffCancelled
<1>10. CASE EndEnrichment(r)
  BY <1>10 DEF EndEnrichment, At, TypeInv, TypeOK, Shape, env, history, kafka,
               Runnable, AtNode, CurrentNode, Stages
<1>11. CASE EndScoring(r)
  <2> USE DEF TypeInv, EndScoring, At, env, history, kafka, Stages
  <2>1. TypeOK'
    <3>1. CASE Unscored(r)
      BY <1>11, <3>1 DEF TypeOK
    <3>2. CASE ~Unscored(r)
      <4>1. /\ stage' = [stage EXCEPT ![r] = "publishing"]
            /\ idx' = [idx EXCEPT ![r] = 1]
            /\ UNCHANGED <<disk, claim, ctxDone, answer, cfg, call, attempt, local,
                           outcome, tries, event, inflight, topic>>
        BY <1>11, <3>2
      <4>2. QED
        BY <4>1 DEF TypeOK
    <3>3. QED
      BY <3>1, <3>2
  <2>2. ASSUME NEW q \in Runs PROVE Shape(q)'
    BY <1>11 DEF TypeOK, Shape, Unscored, Runnable, AtNode, CurrentNode
  <2>3. QED
    BY <2>1, <2>2
<1>12. CASE ReturnResult(r)
  BY <1>12 DEF ReturnResult, At, TypeInv, TypeOK, Shape, env, history, kafka,
               Runnable, AtNode, CurrentNode, Stages
<1>13. QED
  BY <1>1, <1>2, <1>3, <1>4, <1>5, <1>6, <1>7, <1>8, <1>9, <1>10, <1>11, <1>12
     DEF RunStep

\* Every step of the specification keeps it.
LEMMA TypeStep == TypeInv /\ [Next]_vars => TypeInv'
<1> SUFFICES ASSUME TypeInv, [Next]_vars PROVE TypeInv'
  OBVIOUS
<1> USE DEF TypeInv, TypeOK, Shape, EventOf, env, history, kafka, Runnable, AtNode, CurrentNode
<1>1. ASSUME NEW r \in Runs, RunStep(r) PROVE TypeInv'
  BY <1>1, TypeRunStep
<1>2. ASSUME NEW r \in Runs, ResolveVersion(r) \/ ResolveVersionFails(r) PROVE TypeInv'
  BY <1>2, TypeLoad
<1>3. ASSUME NEW r \in Runs, CancelContext(r) PROVE TypeInv'
  BY <1>3 DEF CancelContext
<1>4. ASSUME NEW m \in inflight, Deliver(m) \/ Lose(m) PROVE TypeInv'
  BY <1>4 DEF Deliver, Lose
<1>5. ASSUME NEW p \in Paths, NEW f \in Files, EditConfig(p, f) PROVE TypeInv'
  BY <1>5 DEF EditConfig
<1>6. CASE UNCHANGED vars
  BY <1>6 DEF vars
<1>7. QED
  BY <1>1, <1>2, <1>3, <1>4, <1>5, <1>6 DEF Next

\* Every reachable state is well typed, whatever the runs, the claims and the DAG
\* files (Executor.Run): in particular no event without a score is ever handed to
\* the Kafka writer.
THEOREM TypeCorrect == Spec => []TypeOK
<1>1. Spec => []TypeInv
  BY TypeInit, TypeStep, PTL DEF Spec
<1>2. QED
  BY <1>1, PTL DEF TypeInv
-----------------------------------------------------------------------------
(* No flattered score.                                                     *)

\* What Run knows of the policy and of the address is what the services answer,
\* or the defaults it started with.
Honest(r) ==
  LET l == local[r]
      p == Lookup(claim[r].policyNumber)
  IN  /\ \/ l.policyStatus = "" /\ l.policyCoverageType = ""
         \/ l.policyStatus = p.status /\ l.policyCoverageType = p.coverageType
      /\ l.addressValid => Normalize(claim[r].rawAddress).valid

HonestInv == \A r \in Runs : Honest(r)

FlatteryInv == TypeInv /\ HonestInv /\ NoFlatteredScore

Capped(n) == IF n > maxScore THEN maxScore ELSE n

AtLeast(x, y) == x \in Nat /\ y \in Nat /\ x >= y

\* The arithmetic of it: the capped sum is monotone in every weight.
LEMMA CappedSum ==
  ASSUME NEW a1, NEW a2, NEW b1, NEW b2, NEW c1, NEW c2,
         AtLeast(a1, a2), AtLeast(b1, b2), AtLeast(c1, c2)
  PROVE  Capped(baseScore + a1 + b1 + c1) >= Capped(baseScore + a2 + b2 + c2)
BY DEF AtLeast, Capped, baseScore, maxScore

\* The weights of Score, compared.
LEMMA WeightsCompared ==
  /\ \A x \in {0, 5, 10, 15, 25, 30} : AtLeast(x, x)
  /\ \A x \in {0, 15, 25, 30} : AtLeast(30, x)
  /\ AtLeast(5, 0) /\ AtLeast(10, 0)
BY DEF AtLeast

\* A score falls by nothing when a feature is replaced by its default: the
\* defaults are the riskiest values (Score).
LEMMA DefaultsAreRiskiest ==
  ASSUME NEW f, NEW g,
         f.policy_status = "" \/ f.policy_status = g.policy_status,
         f.policy_coverage_type = "" \/ f.policy_coverage_type = g.policy_coverage_type,
         f.address_valid = "false" \/ f.address_valid = g.address_valid
  PROVE  Score(f) >= Score(g)
<1> DEFINE a1 == StatusWeight(f.policy_status)
           a2 == StatusWeight(g.policy_status)
           b1 == IF f.policy_coverage_type = "" THEN 5 ELSE 0
           b2 == IF g.policy_coverage_type = "" THEN 5 ELSE 0
           c1 == IF ParseBool(f.address_valid) THEN 0 ELSE 10
           c2 == IF ParseBool(g.address_valid) THEN 0 ELSE 10
<1>1. AtLeast(a1, a2)
  <2>1. a1 \in {0, 15, 25, 30} /\ a2 \in {0, 15, 25, 30}
    BY DEF StatusWeight
  <2>2. a1 = a2 \/ a1 = 30
    BY DEF StatusWeight
  <2> HIDE DEF a1, a2
  <2>3. QED
    BY <2>1, <2>2, WeightsCompared, Zenon
<1>2. AtLeast(b1, b2)
  BY WeightsCompared, Zenon
<1>3. AtLeast(c1, c2)
  <2>1. ~ParseBool("false")
    BY DEF ParseBool
  <2>2. QED
    BY <2>1, WeightsCompared, Zenon
<1>4. /\ Score(f) = Capped(baseScore + a1 + b1 + c1)
      /\ Score(g) = Capped(baseScore + a2 + b2 + c2)
  BY DEF Score, Capped
<1> HIDE DEF a1, a2, b1, b2, c1, c2
<1>5. QED
  BY <1>1, <1>2, <1>3, <1>4, CappedSum, Zenon

\* What the features of honest locals score.
LEMMA HonestScore ==
  ASSUME TypeInv, NEW r \in Runs, Honest(r)
  PROVE  Score(Features(local[r])) >= FullyEnrichedScore(claim[r])
<1> DEFINE p == Lookup(claim[r].policyNumber)
           v == Normalize(claim[r].rawAddress).valid
           f == Features(local[r])
           g == [policy_status |-> p.status, policy_coverage_type |-> p.coverageType,
                 address_valid |-> FormatBool(v)]
<1>1. /\ f.policy_status = "" \/ f.policy_status = g.policy_status
      /\ f.policy_coverage_type = "" \/ f.policy_coverage_type = g.policy_coverage_type
  BY DEF Features, Honest
<1>2. f.address_valid = "false" \/ f.address_valid = g.address_valid
  BY NormalizeType DEF Features, Honest, FormatBool
<1>3. FullyEnrichedScore(claim[r]) = Score(g)
  BY DEF FullyEnrichedScore
<1> HIDE DEF f, g
<1>4. Score(f) >= Score(g)
  BY <1>1, <1>2, DefaultsAreRiskiest
<1>5. QED
  BY <1>3, <1>4 DEF f

Services == {"claimant-id-hashing-svc", "address-normalization-svc",
             "policy-lookup-svc", "model-service", "kafka-publisher"}

\* The services whose answers a run absorbs where it is.
ServicesAt(q) == {s \in Services : stage[q] = "publishing" => s = "kafka-publisher"}

\* A failure changes the status only.
Marked(l, status) == [l EXCEPT !.status = status]

\* The four ways a step can leave the locals of a run.
LocalChange(q) ==
  \/ local'[q] = local[q]
  \/ local'[q] = Marked(local[q], StatusAfterFailure(q))
  \/ \E s \in ServicesAt(q) : local'[q] = AbsorbNil(local[q], s)
  \/ \E s \in ServicesAt(q) : local'[q] = Absorb(local[q], claim[q], s)

\* Every step leaves them in one of these ways, and no step changes a claim.
LEMMA LocalsChange ==
  ASSUME TypeInv, [Next]_vars, NEW q \in Runs
  PROVE  claim' = claim /\ LocalChange(q)
<1> USE DEF env, history, kafka
<1>1. ASSUME NEW r \in Runs, UNCHANGED <<claim, local>> PROVE claim' = claim /\ LocalChange(q)
  BY <1>1 DEF LocalChange
<1>2. ASSUME NEW r \in Runs, NodeFailed(r), UNCHANGED claim
      PROVE  claim' = claim /\ LocalChange(q)
  <2>1. CASE NodeFailureHandled(CurrentNode(r))
    <3>1. local' = [local EXCEPT ![r] = Marked(local[r], StatusAfterFailure(r))]
      BY <1>2, <2>1, Zenon DEF NodeFailed, Marked
    <3>2. QED
      BY <1>2, <3>1 DEF LocalChange, TypeInv, TypeOK
  <2>2. CASE ~NodeFailureHandled(CurrentNode(r))
    BY <1>2, <2>2 DEF NodeFailed, LocalChange
  <2>3. QED
    BY <2>1, <2>2
<1>3. ASSUME NEW r \in Runs, Runnable(r), stage[r] \in Stages
      PROVE  CurrentNode(r).service \in ServicesAt(r)
  BY <1>3 DEF Runnable, RunsIn, Recognized, Stages, Services, ServicesAt
<1>4. ASSUME NEW r \in Runs, SkipAllAttempts(r) PROVE claim' = claim /\ LocalChange(q)
  <2>1. CurrentNode(r).service \in ServicesAt(r)
    BY <1>3, <1>4 DEF SkipAllAttempts, In
  <2>2. /\ local' = [local EXCEPT ![r] = AbsorbNil(local[r], CurrentNode(r).service)]
        /\ claim' = claim
    BY <1>4 DEF SkipAllAttempts, NodeDone
  <2>3. QED
    BY <2>1, <2>2 DEF LocalChange, TypeInv, TypeOK
<1>5. ASSUME NEW r \in Runs, AttemptSucceeds(r) PROVE claim' = claim /\ LocalChange(q)
  <2>1. CurrentNode(r).service \in ServicesAt(r)
    BY <1>3, <1>5 DEF AttemptSucceeds, In, TypeInv, Shape
  <2>2. /\ local' = [local EXCEPT ![r] = Absorb(local[r], claim[r], CurrentNode(r).service)]
        /\ claim' = claim
    BY <1>5 DEF AttemptSucceeds, NodeDone
  <2>3. QED
    BY <2>1, <2>2 DEF LocalChange, TypeInv, TypeOK
<1>6. ASSUME NEW r \in Runs, RunStep(r) PROVE claim' = claim /\ LocalChange(q)
  <2>1. CASE LastAttemptFails(r) \/ BackoffCancelled(r)
    BY <1>2, <2>1 DEF LastAttemptFails, BackoffCancelled
  <2>2. CASE SkipAllAttempts(r) \/ AttemptSucceeds(r)
    BY <1>4, <1>5, <2>2
  <2>3. CASE ReadConfig(r) \/ SkipNode(r) \/ BeginCall(r) \/ AttemptFails(r)
             \/ BackoffElapses(r) \/ EndEnrichment(r) \/ EndScoring(r) \/ ReturnResult(r)
    BY <1>1, <2>3 DEF ReadConfig, SkipNode, BeginCall, AttemptFails, BackoffElapses,
                      EndEnrichment, EndScoring, ReturnResult
  <2>4. QED
    BY <1>6, <2>1, <2>2, <2>3 DEF RunStep
<1>7. ASSUME NEW r \in Runs, ResolveVersion(r) \/ ResolveVersionFails(r) \/ CancelContext(r)
      PROVE  claim' = claim /\ LocalChange(q)
  BY <1>1, <1>7 DEF ResolveVersion, ResolveVersionFails, CancelContext
<1>8. ASSUME NEW m, Deliver(m) \/ Lose(m) PROVE claim' = claim /\ LocalChange(q)
  BY <1>1, <1>8 DEF Deliver, Lose
<1>9. ASSUME NEW p, NEW f, EditConfig(p, f) PROVE claim' = claim /\ LocalChange(q)
  BY <1>1, <1>9 DEF EditConfig
<1>10. CASE UNCHANGED vars
  BY <1>1, <1>10 DEF vars
<1>11. QED
  BY <1>6, <1>7, <1>8, <1>9, <1>10 DEF Next

\* What absorbing a nil response may change: to a default, and never the rest.
LEMMA AbsorbNilEffect ==
  ASSUME NEW l \in Local, NEW s \in Services, NEW k, k = AbsorbNil(l, s)
  PROVE  /\ \/ k.policyStatus = "" /\ k.policyCoverageType = ""
            \/ k.policyStatus = l.policyStatus /\ k.policyCoverageType = l.policyCoverageType
         /\ k.addressValid => l.addressValid
         /\ k.score # None => k.score = l.score
  BY DEF AbsorbNil, Services, Local

\* What absorbing an answer may change: to what the service says.
LEMMA AbsorbEffect ==
  ASSUME NEW l \in Local, NEW c, NEW s \in Services, NEW k, k = Absorb(l, c, s)
  PROVE  /\ \/ /\ k.policyStatus = Lookup(c.policyNumber).status
               /\ k.policyCoverageType = Lookup(c.policyNumber).coverageType
            \/ k.policyStatus = l.policyStatus /\ k.policyCoverageType = l.policyCoverageType
         /\ k.addressValid = Normalize(c.rawAddress).valid \/ k.addressValid = l.addressValid
         /\ k.score = l.score \/ k.score = Score(Features(l))
  BY DEF Absorb, Services, Local

\* A change of the locals keeps them honest and the score unflattered.
LEMMA FlatteryStep == FlatteryInv /\ [Next]_vars => FlatteryInv'
<1> SUFFICES ASSUME FlatteryInv, [Next]_vars PROVE FlatteryInv'
  OBVIOUS
<1>1. TypeInv'
  BY TypeStep DEF FlatteryInv
<1>2. ASSUME NEW q \in Runs
      PROVE  /\ Honest(q)'
             /\ local'[q].score # None => local'[q].score >= FullyEnrichedScore(claim'[q])
  <2> DEFINE l == local[q]
             c == claim[q]
             k == local'[q]
  <2>1. TypeInv /\ Honest(q) /\ l \in Local
    BY DEF FlatteryInv, HonestInv, TypeInv, TypeOK
  <2>2. l.score # None => l.score >= FullyEnrichedScore(c)
    BY DEF FlatteryInv, NoFlatteredScore
  <2>3. Score(Features(l)) >= FullyEnrichedScore(c)
    BY <2>1, HonestScore
  <2>4. claim' = claim /\ LocalChange(q)
    BY <2>1, LocalsChange
  <2>5. SUFFICES /\ \/ k.policyStatus = "" /\ k.policyCoverageType = ""
                    \/ /\ k.policyStatus = Lookup(c.policyNumber).status
                       /\ k.policyCoverageType = Lookup(c.policyNumber).coverageType
                 /\ k.addressValid => Normalize(c.rawAddress).valid
                 /\ k.score # None => k.score >= FullyEnrichedScore(c)
    BY <2>4 DEF Honest
  <2>6. CASE k = l
    BY <2>1, <2>2, <2>6 DEF Honest
  <2>7. CASE k = Marked(l, StatusAfterFailure(q))
    <3>1. /\ k.policyStatus = l.policyStatus /\ k.policyCoverageType = l.policyCoverageType
          /\ k.addressValid = l.addressValid /\ k.score = l.score
      BY <2>1, <2>7 DEF Marked, Local
    <3>2. QED
      BY <2>1, <2>2, <3>1 DEF Honest
  <2>8. ASSUME NEW s \in Services, k = AbsorbNil(l, s)
        PROVE  /\ \/ k.policyStatus = "" /\ k.policyCoverageType = ""
                  \/ /\ k.policyStatus = l.policyStatus
                     /\ k.policyCoverageType = l.policyCoverageType
               /\ k.addressValid => l.addressValid
               /\ k.score # None => k.score = l.score
    <3>1. l \in Local
      BY <2>1
    <3>2. QED
      BY <2>8, <3>1, AbsorbNilEffect, ZenonT(30)
  <2>9. ASSUME NEW s \in Services, k = Absorb(l, c, s)
        PROVE  /\ \/ /\ k.policyStatus = Lookup(c.policyNumber).status
                     /\ k.policyCoverageType = Lookup(c.policyNumber).coverageType
                  \/ /\ k.policyStatus = l.policyStatus
                     /\ k.policyCoverageType = l.policyCoverageType
               /\ k.addressValid = Normalize(c.rawAddress).valid \/ k.addressValid = l.addressValid
               /\ k.score = l.score \/ k.score = Score(Features(l))
    BY <2>1, <2>9, AbsorbEffect
  <2>10. QED
    BY <2>1, <2>2, <2>3, <2>4, <2>6, <2>7, <2>8, <2>9 DEF LocalChange, Honest, ServicesAt
<1>3. HonestInv' /\ NoFlatteredScore'
  BY <1>2 DEF HonestInv, NoFlatteredScore
<1>4. QED
  BY <1>1, <1>3 DEF FlatteryInv

\* Whatever nodes fail, are skipped or are missing, the score of a run is at least
\* the score of the fully enriched claim (Run with Score): for every claim and
\* every DAG file, losing enrichment never makes a claim look safer.
THEOREM ScoresNeverFlatter == Spec => []NoFlatteredScore
<1>1. Init => FlatteryInv
  <2> SUFFICES ASSUME Init PROVE FlatteryInv
    OBVIOUS
  <2>1. ASSUME NEW r \in Runs
        PROVE  /\ local[r].policyStatus = "" /\ local[r].policyCoverageType = ""
               /\ local[r].addressValid = FALSE /\ local[r].score = None
    BY DEF Init, InitLocal
  <2>2. HonestInv
    BY <2>1 DEF HonestInv, Honest
  <2>3. NoFlatteredScore
    BY <2>1 DEF NoFlatteredScore
  <2>4. QED
    BY <2>2, <2>3, TypeInit DEF FlatteryInv
<1>2. Spec => []FlatteryInv
  BY <1>1, FlatteryStep, PTL DEF Spec
<1>3. QED
  BY <1>2, PTL DEF FlatteryInv
-----------------------------------------------------------------------------
(* Events agree with the answer.                                           *)

\* Once a run publishes it goes on publishing, its score is fixed, and a degraded
\* run stays degraded.
LEMMA PublishingPersists ==
  ASSUME TypeInv, [Next]_vars, NEW q \in Runs, stage[q] = "publishing"
  PROVE  /\ stage'[q] = "publishing"
         /\ local'[q].score = local[q].score
         /\ local[q].status = "degraded" => local'[q].status = "degraded"
<1>1. stage'[q] = "publishing"
  <2> USE DEF TypeInv, TypeOK, env, history, kafka
  <2>run. ASSUME NEW r \in Runs, RunStep(r) PROVE stage'[q] = "publishing"
    BY <2>run DEF RunStep, ReadConfig, SkipNode, BeginCall, SkipAllAttempts, AttemptSucceeds,
                AttemptFails, LastAttemptFails, BackoffElapses, BackoffCancelled,
                EndEnrichment, EndScoring, ReturnResult, At
  <2>lookup. ASSUME NEW r \in Runs, ResolveVersion(r) \/ ResolveVersionFails(r) \/ CancelContext(r)
        PROVE  stage'[q] = "publishing"
    BY <2>lookup DEF ResolveVersion, ResolveVersionFails, CancelContext, At
  <2>writer. ASSUME NEW m, Deliver(m) \/ Lose(m) PROVE stage'[q] = "publishing"
    BY <2>writer DEF Deliver, Lose
  <2>edit. ASSUME NEW p, NEW f, EditConfig(p, f) PROVE stage'[q] = "publishing"
    BY <2>edit DEF EditConfig
  <2>stutter. CASE UNCHANGED vars
    BY <2>stutter DEF vars
  <2> QED
    BY <2>stutter, <2>edit, <2>writer, <2>lookup, <2>run DEF Next
<1>2. local[q] \in Local
  BY DEF TypeInv, TypeOK
<1>3. \/ local'[q] = local[q]
      \/ local'[q] = Marked(local[q], "degraded")
  <2>1. LocalChange(q)
    BY LocalsChange
  <2>2. \A s \in ServicesAt(q) : /\ AbsorbNil(local[q], s) = local[q]
                                 /\ Absorb(local[q], claim[q], s) = local[q]
    BY DEF ServicesAt, Absorb, AbsorbNil
  <2>3. StatusAfterFailure(q) = "degraded"
    BY DEF StatusAfterFailure
  <2>4. QED
    BY <2>1, <2>2, <2>3 DEF LocalChange
<1>4. QED
  BY <1>1, <1>2, <1>3 DEF Marked, Local

\* An event that a step brings into being is the current one of a publishing run.
LEMMA NewEvents ==
  ASSUME TypeInv, [Next]_vars, NEW m \in (inflight \cup topic)'
  PROVE  \/ m \in inflight \cup topic
         \/ /\ m.run \in Runs /\ stage[m.run] = "publishing"
            /\ m.score = local[m.run].score /\ m.status = local[m.run].status
<1> DEFINE Old == m \in inflight \cup topic
           New == /\ m.run \in Runs /\ stage[m.run] = "publishing"
                  /\ m.score = local[m.run].score /\ m.status = local[m.run].status
<1> USE DEF env, history, kafka
<1>1. ASSUME NEW r \in Runs, BeginCall(r) \/ BackoffElapses(r)
      PROVE  Old \/ New
  <2>1. PICK k \in Nat : StartAttempt(r, k, event'[r])
    BY <1>1, AttemptsSend
  <2>2. /\ UNCHANGED topic
        /\ Publishes(r) => stage[r] = "publishing" /\ event'[r] = EventOf(r)
    BY <1>1, AttemptsSend
  <2>3. Publishes(r) => /\ Message(r, k, event'[r]).run = r
                        /\ Message(r, k, event'[r]).score = local[r].score
                        /\ Message(r, k, event'[r]).status = local[r].status
    BY <2>2 DEF Message, EventOf
  <2>4. QED
    BY <2>1, <2>2, <2>3 DEF StartAttempt
<1>2. ASSUME NEW r \in Runs, RunStep(r) PROVE Old \/ New
  <2>1. CASE BeginCall(r) \/ BackoffElapses(r)
    BY <1>1, <2>1
  <2>2. CASE UNCHANGED kafka
    BY <2>2
  <2>3. QED
    BY <1>2, <2>1, <2>2
       DEF RunStep, ReadConfig, SkipNode, SkipAllAttempts, AttemptSucceeds, AttemptFails,
           LastAttemptFails, BackoffCancelled, EndEnrichment, EndScoring, ReturnResult
<1>3. ASSUME NEW r \in Runs, ResolveVersion(r) \/ ResolveVersionFails(r) \/ CancelContext(r)
      PROVE  Old
  BY <1>3 DEF ResolveVersion, ResolveVersionFails, CancelContext
<1>4. ASSUME NEW e \in inflight, Deliver(e) \/ Lose(e) PROVE Old
  BY <1>4 DEF Deliver, Lose
<1>5. ASSUME NEW p, NEW f, EditConfig(p, f) PROVE Old
  BY <1>5 DEF EditConfig
<1>6. CASE UNCHANGED vars
  BY <1>6 DEF vars
<1>7. QED
  BY <1>2, <1>3, <1>4, <1>5, <1>6 DEF Next

EventInv == TypeInv /\ EventsAgreeWithAnswer

\* Every step keeps events in agreement with their runs.
LEMMA EventStep == EventInv /\ [Next]_vars => EventInv'
<1> SUFFICES ASSUME EventInv, [Next]_vars PROVE EventInv'
  OBVIOUS
<1>1. TypeInv /\ TypeInv'
  BY TypeStep DEF EventInv
<1>2. ASSUME NEW m \in (inflight \cup topic)'
      PROVE  /\ stage'[m.run] = "publishing"
             /\ m.score = local'[m.run].score
             /\ m.status = "degraded" => local'[m.run].status = "degraded"
  <2>1. /\ m.run \in Runs
        /\ stage[m.run] = "publishing"
        /\ m.score = local[m.run].score
        /\ m.status = "degraded" => local[m.run].status = "degraded"
    <3>1. CASE m \in inflight \cup topic
      BY <1>1, <3>1 DEF EventInv, EventsAgreeWithAnswer, TypeInv, TypeOK, Event
    <3>2. CASE m \notin inflight \cup topic
      BY <1>1, <3>2, NewEvents
    <3>3. QED
      BY <3>1, <3>2
  <2>2. QED
    BY <1>1, <2>1, PublishingPersists
<1>3. EventsAgreeWithAnswer'
  BY <1>2 DEF EventsAgreeWithAnswer
<1>4. QED
  BY <1>1, <1>3 DEF EventInv

\* Consumers of the topic and the caller are told the same thing, for every DAG
\* file, any number of runs, and also when an event is written after its publish
\* node timed out (Run with KafkaPublisher.Publish).
THEOREM EventsAgree == Spec => []EventsAgreeWithAnswer
<1>1. Init => EventInv
  BY TypeInit DEF EventInv, EventsAgreeWithAnswer, Init
<1>2. Spec => []EventInv
  BY <1>1, EventStep, PTL DEF Spec
<1>3. QED
  BY <1>2, PTL DEF EventInv
=============================================================================
