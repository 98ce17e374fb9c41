--------------------------- MODULE ProgressProofs ---------------------------
(***************************************************************************)
(* What a run still has to do, and what its events may say, for every set  *)
(* of runs, claims and files: no run goes round in circles, and an event   *)
(* differs from the answer only over a failed publish.  Also the DAG files *)
(* for which the code does what its comments say of retries and of failed  *)
(* nodes.                                                                  *)
(***************************************************************************)
EXTENDS LedgerProofs

(* What is left of a run.                                                  *)

\* A loop stops one past the last node.
WithinLoop(q) == idx[q] <= Len(Nodes(q)) + 1

ProgressInv == AccountInv /\ \A q \in Runs : WithinLoop(q)

LeftOK == \A q \in Runs : Left(q) \in Nat \X Nat \X Nat

\* What an invariant so far says about one run.
LEMMA ProgressFacts ==
  ASSUME ProgressInv, NEW q \in Runs
  PROVE  /\ TypeInv /\ Counted(q) /\ WithinLoop(q) /\ Placed(q)
         /\ stage[q] \in {"version", "file"} \cup Stages
         /\ answer[q] \in {"pending", "returned", "failed"}
         /\ call[q] \in {"none", "calling", "doomed", "backoff"}
         /\ call[q] # "none" => AtNode(q)
  BY DEF ProgressInv, AccountInv, RetryInv, TypeInv, TypeOK, Shape, Runnable

\* The attempts of a call are within its budget, so what is left is never negative.
LEMMA LeftIsNatural == ProgressInv => LeftOK
  <1>. SUFFICES ASSUME ProgressInv, NEW q \in Runs
                PROVE  /\ StagesLeft(q) \in Nat
                       /\ NodesLeft(q) \in Nat
                       /\ TurnsLeft(q) \in Nat
    BY DEF LeftOK, Left
  <1>facts. /\ Counted(q) /\ WithinLoop(q) /\ (call[q] # "none" => AtNode(q))
            /\ stage[q] \in {"version", "file"} \cup Stages
            /\ call[q] \in {"none", "calling", "doomed", "backoff"}
    BY ProgressFacts
  <1>types. /\ Len(Nodes(q)) \in Nat /\ idx[q] \in Nat /\ attempt[q] \in Nat
            /\ AtNode(q) => CurrentNode(q).maxRetries \in Int
    BY ProgressFacts, Indices
  <1>stages. StagesLeft(q) \in Nat
    BY <1>facts DEF StagesLeft, Stages
  <1>nodes. NodesLeft(q) \in Nat
    BY <1>facts, <1>types DEF NodesLeft, WithinLoop
  <1>turns. TurnsLeft(q) \in Nat
    BY <1>facts, <1>types DEF TurnsLeft, Counted
  <1>. QED  BY <1>stages, <1>nodes, <1>turns

\* Moves that stay at the node and have fewer turns left.
LEMMA TurnsDescend ==
  ASSUME ProgressInv, NEW q \in Runs, Try(q) \/ Pause(q)
  PROVE  /\ StagesLeft(q)' = StagesLeft(q) /\ NodesLeft(q)' = NodesLeft(q)
         /\ TurnsLeft(q)' < TurnsLeft(q)
  <1>facts. Counted(q) /\ call[q] \in {"none", "calling", "doomed", "backoff"}
    BY ProgressFacts
  <1>same. /\ stage'[q] = stage[q] /\ answer'[q] = answer[q] /\ idx'[q] = idx[q]
           /\ cfg'[q] = cfg[q] /\ AtNode(q)
    BY DEF Try, Pause, Busy, Runnable
  <1>types. attempt[q] \in Nat /\ CurrentNode(q).maxRetries \in Int
    BY <1>same, ProgressFacts, Indices
  <1>kept. StagesLeft(q)' = StagesLeft(q) /\ NodesLeft(q)' = NodesLeft(q)
    BY <1>same DEF StagesLeft, NodesLeft, Nodes, Ended
  <1>node. CurrentNode(q)' = CurrentNode(q)
    BY <1>same DEF CurrentNode
  <1>try. CASE Try(q)
    <2>1. /\ call'[q] \in {"calling", "doomed"}
          /\ \/ call[q] = "none" /\ attempt'[q] = 0 /\ CurrentNode(q).maxRetries >= 0
             \/ call[q] = "backoff" /\ attempt'[q] = attempt[q] + 1
      BY <1>try DEF Try
    <2>. QED  BY <1>kept, <1>same, <1>types, <1>node, <2>1 DEF TurnsLeft
  <1>pause. CASE Pause(q)
    <2>1. call[q] \in {"calling", "doomed"} /\ call'[q] = "backoff" /\ attempt'[q] = attempt[q]
      BY <1>pause DEF Pause, Quiet
    <2>. QED  BY <1>kept, <1>types, <1>node, <2>1 DEF TurnsLeft
  <1>. QED  BY <1>try, <1>pause

\* Moves on to the next node of the loop.
LEMMA NodesDescend ==
  ASSUME ProgressInv, NEW q \in Runs,
         idx'[q] = idx[q] + 1, stage'[q] = stage[q], answer'[q] = answer[q], cfg'[q] = cfg[q]
  PROVE  StagesLeft(q)' = StagesLeft(q) /\ NodesLeft(q)' < NodesLeft(q)
  <1>types. Len(Nodes(q)) \in Nat /\ idx[q] \in Nat
    BY ProgressFacts, Indices
  <1>kept. StagesLeft(q)' = StagesLeft(q) /\ NodesLeft(q)' = Len(Nodes(q)) + 1 - (idx[q] + 1)
    BY DEF StagesLeft, NodesLeft, Nodes, Ended
  <1>. QED  BY <1>types, <1>kept DEF NodesLeft

\* Every move of a run but staying where it is leaves it less to do.
LEMMA MovesDescend ==
  ASSUME ProgressInv, NEW q \in Runs, Move(q), ~Stay(q)
  PROVE  Less(Left(q)', Left(q))
  <1>facts. stage[q] \in {"version", "file"} \cup Stages
    BY ProgressFacts
  <1>less. ASSUME \/ StagesLeft(q)' < StagesLeft(q)
                  \/ StagesLeft(q)' = StagesLeft(q) /\ NodesLeft(q)' < NodesLeft(q)
                  \/ /\ StagesLeft(q)' = StagesLeft(q) /\ NodesLeft(q)' = NodesLeft(q)
                     /\ TurnsLeft(q)' < TurnsLeft(q)
           PROVE  Less(Left(q)', Left(q))
    BY <1>less DEF Less, Left
  <1>over. ASSUME answer[q] = "pending", answer'[q] # "pending"
           PROVE  StagesLeft(q)' < StagesLeft(q)
    BY <1>facts, <1>over DEF StagesLeft, Ended, Stages
  <1>turn. CASE Try(q) \/ Pause(q)
    BY <1>turn, <1>less, TurnsDescend
  <1>next. CASE Pass(q) \/ Succeed(q)
    <2>1. idx'[q] = idx[q] + 1 /\ stage'[q] = stage[q] /\ answer'[q] = answer[q] /\ cfg'[q] = cfg[q]
      BY <1>next DEF Pass, Succeed, Busy, Resting, Quiet
    <2>. QED  BY <1>less, <2>1, NodesDescend
  <1>fail. CASE Fail(q)
    <2>1. answer[q] = "pending" /\ stage'[q] = stage[q] /\ cfg'[q] = cfg[q]
          /\ ((idx'[q] = idx[q] + 1 /\ answer'[q] = answer[q]) \/ answer'[q] = "failed")
      BY <1>fail DEF Fail, Busy
    <2>. QED  BY <1>less, <1>over, <2>1, NodesDescend
  <1>up. CASE GiveUp(q)
    BY <1>up, <1>less, <1>over DEF GiveUp, Resting
  <1>on. CASE Advance(q) \/ Read(q)
    <2>1. StagesLeft(q)' < StagesLeft(q)
      BY <1>on DEF Advance, Read, Resting, StagesLeft, Ended
    <2>. QED  BY <1>less, <2>1
  <1>. QED  BY <1>turn, <1>next, <1>fail, <1>up, <1>on DEF Move

\* A step of a run is a move of it: something of where it is changes.
LEMMA StepsMove ==
  ASSUME TypeInv, NEW q \in Runs, RunStep(q)
  PROVE  ~Stay(q)
  <1>done. CASE SkipAllAttempts(q) \/ AttemptSucceeds(q)
    <2>1. Succeed(q) /\ idx[q] \in Nat  BY <1>done, DoneMoves, Indices
    <2>. QED  BY <2>1 DEF Succeed, Stay
  <1>fail. CASE LastAttemptFails(q) \/ BackoffCancelled(q)
    <2>1. Fail(q)  BY <1>fail, FailMoves
    <2>. QED  BY <2>1 DEF Fail, Stay
  <1>try. CASE BeginCall(q) \/ BackoffElapses(q)
    <2>1. Try(q)  BY <1>try, TryMoves
    <2>. QED  BY <2>1 DEF Try, Stay
  <1>. USE DEF TypeInv, TypeOK, Stay, In, At
  <1>load. CASE ReadConfig(q)
    BY <1>load DEF ReadConfig
  <1>skip. CASE SkipNode(q) \/ EndEnrichment(q) \/ ReturnResult(q)
    BY <1>skip DEF SkipNode, EndEnrichment, ReturnResult
  <1>scored. CASE EndScoring(q)
    BY <1>scored DEF EndScoring
  <1>pause. CASE AttemptFails(q)
    BY <1>pause DEF AttemptFails
  <1>. QED
    BY <1>load, <1>skip, <1>scored, <1>try, <1>done, <1>pause, <1>fail DEF RunStep

\* Staying leaves as much to do as before.
LEMMA StayingKeepsLeft ==
  ASSUME NEW q \in Runs, Stay(q)
  PROVE  Left(q)' = Left(q)
  <1>same. /\ stage'[q] = stage[q] /\ answer'[q] = answer[q] /\ idx'[q] = idx[q]
           /\ cfg'[q] = cfg[q] /\ call'[q] = call[q] /\ attempt'[q] = attempt[q]
    BY DEF Stay, Quiet
  <1>. QED
    BY <1>same
    DEF Left, StagesLeft, NodesLeft, TurnsLeft, Ended, Nodes, CurrentNode, AtNode

\* The loops stay within their nodes.
LEMMA ProgressStep == ProgressInv /\ [Next]_vars => ProgressInv'
  <1>. SUFFICES ASSUME ProgressInv, [Next]_vars PROVE ProgressInv'  OBVIOUS
  <1>account. AccountInv' /\ TypeInv /\ TypeInv'
    BY AccountStep, TypeStep DEF ProgressInv, AccountInv, RetryInv
  <1>loop. ASSUME NEW q \in Runs PROVE WithinLoop(q)'
    <2>move. Move(q) /\ WithinLoop(q) /\ Placed(q)
      BY <1>account, EveryStepMoves DEF ProgressInv, AccountInv
    <2>types. Len(Nodes(q)) \in Nat /\ idx[q] \in Nat
              /\ (AtNode(q) <=> idx[q] <= Len(Nodes(q)))
      BY <1>account, Indices DEF AtNode, Nodes
    <2>read. CASE Read(q)
      <3>1. idx'[q] = 1  BY <2>move, <2>read DEF Read, Placed
      <3>2. Len(Nodes(q)') \in Nat
        BY <1>account DEF TypeInv, TypeOK, Config, Nodes
      <3>. QED  BY <3>1, <3>2 DEF WithinLoop
    <2>else. CASE ~Read(q)
      <3>1. Nodes(q)' = Nodes(q)
        BY <2>move, <2>else DEF Move, Stay, GiveUp, Pass, Advance, Try, Pause, Succeed, Fail,
                                Resting, Quiet, Busy, Nodes
      <3>2. idx'[q] \in {idx[q], 1} \/ (idx'[q] = idx[q] + 1 /\ AtNode(q))
        BY <2>move, <2>else DEF Move, Stay, GiveUp, Pass, Advance, Try, Pause, Succeed, Fail,
                                Busy, Runnable
      <3>. QED  BY <2>move, <2>types, <3>1, <3>2 DEF WithinLoop
    <2>. QED  BY <2>read, <2>else
  <1>. QED  BY <1>account, <1>loop DEF ProgressInv

\* Every run is at its first node at first.
LEMMA ProgressInit == Init => ProgressInv
  <1>. SUFFICES ASSUME Init PROVE ProgressInv  OBVIOUS
  <1>1. \A q \in Runs : Nodes(q) = <<>> /\ idx[q] = 1  BY DEF Init, Nodes
  <1>. QED  BY <1>1, AccountInit DEF ProgressInv, WithinLoop

\* Every step of a run leaves it less to do, in a well-founded order, and no step of
\* anyone adds to it: for every DAG file, any number of nodes, retries and runs (the
\* loops of Run and callWithResilience).
THEOREM RunsAlwaysDescend == Spec => RunsDescend
  <1>. DEFINE Descends ==
         \A r \in Runs : /\ Left(r)' \in Nat \X Nat \X Nat
                         /\ RunStep(r) \/ Left(r)' # Left(r) => Less(Left(r)', Left(r))
  <1>natural. ProgressInv' => LeftOK'  BY LeftIsNatural, PTL
  <1>step. ProgressInv /\ [Next]_vars => [Descends]_vars
    <2>. SUFFICES ASSUME ProgressInv, [Next]_vars, NEW r \in Runs
                  PROVE  /\ Left(r)' \in Nat \X Nat \X Nat
                         /\ RunStep(r) \/ Left(r)' # Left(r) => Less(Left(r)', Left(r))
      OBVIOUS
    <2>1. Left(r)' \in Nat \X Nat \X Nat
      BY <1>natural, ProgressStep DEF LeftOK
    <2>2. Move(r) /\ TypeInv
      BY ProgressFacts, EveryStepMoves
    <2>. QED  BY <2>1, <2>2, MovesDescend, StepsMove, StayingKeepsLeft
  <1>. QED  BY <1>step, ProgressInit, ProgressStep, PTL DEF Spec, RunsDescend
-----------------------------------------------------------------------------
(* What events and answers may disagree about.                             *)

Events == inflight \cup topic

\* The publish node of the event, or one after it, has failed.
Excused(m) ==
  \E i \in DOMAIN Nodes(m.run) :
    /\ m.node <= i /\ outcome[m.run][i] = "handled"
    /\ RunsIn(Nodes(m.run)[i], "publishing", claim[m.run].tenant)

\* An event was sent by a node the publishing loop has reached, and says what its
\* run says unless a publish has failed since.
Issued(m) ==
  /\ stage[m.run] = "publishing" /\ m.node <= idx[m.run]
  /\ m.status # local[m.run].status => Excused(m)

IssueInv == RetryInv /\ \A m \in Events : Issued(m)

\* A run sends an event when, and only when, it starts an attempt of a publish node.
Sends(m) ==
  /\ m.run \in Runs /\ Try(m.run) /\ stage[m.run] = "publishing"
  /\ m.node = idx[m.run] /\ m.status = local[m.run].status

\* Every event there is after a step was there before, or is sent by it.
LEMMA SentOrKept ==
  ASSUME TypeInv, [Next]_vars, NEW m \in Events'
  PROVE  m \in Events \/ Sends(m)
  <1>. USE DEF Events, env, history, kafka
  <1>try. ASSUME NEW r \in Runs, BeginCall(r) \/ BackoffElapses(r)
          PROVE  m \in Events \/ Sends(m)
    <2>1. Try(r)  BY <1>try, TryMoves
    <2>2. PICK k \in Nat : StartAttempt(r, k, event'[r])
      BY <1>try, AttemptsSend
    <2>3. /\ topic' = topic
          /\ Publishes(r) => stage[r] = "publishing" /\ event'[r] = EventOf(r)
      BY <1>try, AttemptsSend
    <2>4. CASE ~Publishes(r)
      BY <2>2, <2>3, <2>4 DEF StartAttempt
    <2>5. CASE Publishes(r)
      <3>1. m \in Events \/ m = Message(r, k, EventOf(r))
        BY <2>2, <2>3, <2>5 DEF StartAttempt
      <3>2. m = Message(r, k, EventOf(r))
              => m.run = r /\ m.node = idx[r] /\ m.status = local[r].status
        BY DEF Message, EventOf
      <3>. QED  BY <2>1, <2>3, <2>5, <3>1, <3>2 DEF Sends
    <2>. QED  BY <2>4, <2>5
  <1>run. ASSUME NEW r \in Runs, RunStep(r) PROVE m \in Events \/ Sends(m)
    BY <1>run, <1>try
    DEF RunStep, ReadConfig, SkipNode, SkipAllAttempts, AttemptSucceeds, AttemptFails,
        LastAttemptFails, BackoffCancelled, EndEnrichment, EndScoring, ReturnResult
  <1>load. ASSUME NEW r \in Runs, ResolveVersion(r) \/ ResolveVersionFails(r) \/ CancelContext(r)
           PROVE  m \in Events
    BY <1>load DEF ResolveVersion, ResolveVersionFails, CancelContext
  <1>writer. ASSUME NEW e \in inflight, Deliver(e) \/ Lose(e) PROVE m \in Events
    BY <1>writer DEF Deliver, Lose
  <1>edit. ASSUME NEW p, NEW f, EditConfig(p, f) PROVE m \in Events
    BY <1>edit DEF EditConfig
  <1>same. CASE UNCHANGED vars  BY <1>same DEF vars
  <1>. QED  BY <1>run, <1>load, <1>writer, <1>edit, <1>same DEF Next

\* The publishing loop never goes back, and only a failure changes the status.
LEMMA PublishingMoves ==
  ASSUME TypeInv, NEW q \in Runs, Move(q), stage[q] = "publishing"
  PROVE  /\ ~Read(q) /\ stage'[q] = "publishing" /\ Nodes(q)' = Nodes(q)
         /\ idx'[q] \in {idx[q], idx[q] + 1}
         /\ \/ local'[q].status = local[q].status
            \/ /\ Fail(q) /\ outcome'[q] = [outcome[q] EXCEPT ![idx[q]] = "handled"]
  BY DEF Move, Stay, GiveUp, Pass, Advance, Read, Try, Pause, Succeed, Fail, Resting, Quiet,
         Busy, Nodes

\* What was issued stays issued: a failure that was counted is not forgotten, and one
\* that changes the status is that of the node at hand, which the event is not ahead of.
LEMMA IssuedStays ==
  ASSUME TypeInv, NEW m, m.run \in Runs, m.node \in Nat, Move(m.run), Fresh(m.run),
         claim' = claim, Issued(m)
  PROVE  Issued(m)'
  <1>. DEFINE q == m.run
              k == idx[q]
  <1>1. /\ stage[q] = "publishing" /\ m.node <= k
        /\ m.status # local[q].status => Excused(m)
    BY DEF Issued
  <1>2. /\ ~Read(q) /\ stage'[q] = "publishing" /\ Nodes(q)' = Nodes(q)
        /\ idx'[q] \in {k, k + 1}
        /\ \/ local'[q].status = local[q].status
           \/ Fail(q) /\ outcome'[q] = [outcome[q] EXCEPT ![k] = "handled"]
    BY <1>1, PublishingMoves
  <1>3. k \in Nat /\ DOMAIN outcome[q] = DOMAIN Nodes(q)  BY Indices
  <1>4. m.node <= idx'[q]  BY <1>1, <1>2, <1>3
  <1>5. Excused(m) => Excused(m)'
    <2>. SUFFICES ASSUME NEW i \in DOMAIN Nodes(q), m.node <= i, outcome[q][i] = "handled",
                         RunsIn(Nodes(q)[i], "publishing", claim[q].tenant)
                  PROVE  outcome'[q][i] = "handled"
      BY <1>2 DEF Excused
    <2>1. CASE Busy(q)
      <3>1. outcome[q][k] = "notrun"  BY <2>1, CurrentOpen DEF Fresh
      <3>2. i # k  BY <3>1
      <3>. QED  BY <1>2, <3>2, OtherNodes
    <2>2. CASE ~Busy(q)  BY <1>2, <2>2, OtherNodes
    <2>. QED  BY <2>1, <2>2
  <1>6. CASE local'[q].status = local[q].status
    BY <1>1, <1>2, <1>4, <1>5, <1>6 DEF Issued
  <1>7. CASE Fail(q) /\ outcome'[q] = [outcome[q] EXCEPT ![k] = "handled"]
    <2>1. k \in DOMAIN Nodes(q)  BY <1>7, CurrentOpen DEF Fail
    <2>2. RunsIn(Nodes(q)[k], "publishing", claim[q].tenant)
      BY <1>1, <1>7, Indices DEF Fail, Busy, Runnable
    <2>3. outcome'[q][k] = "handled"  BY <1>3, <1>7, <2>1
    <2>4. Excused(m)'  BY <1>1, <1>2, <2>1, <2>2, <2>3 DEF Excused
    <2>. QED  BY <1>2, <1>4, <2>4 DEF Issued
  <1>. QED  BY <1>2, <1>6, <1>7

\* Every step keeps the events issued.
LEMMA IssueStep == IssueInv /\ [Next]_vars => IssueInv'
  <1>. SUFFICES ASSUME IssueInv, [Next]_vars PROVE IssueInv'  OBVIOUS
  <1>inv. RetryInv' /\ TypeInv /\ \A q \in Runs : Fresh(q)
    BY RetryStep DEF IssueInv, RetryInv
  <1>old. ASSUME NEW m \in Events PROVE Issued(m)'
    <2>1. m \in Event  BY <1>inv DEF Events, TypeInv, TypeOK
    <2>2. m.run \in Runs /\ m.node \in Nat  BY <2>1 DEF Event
    <2>3. Move(m.run) /\ claim' = claim
      BY <1>inv, <2>2, EveryStepMoves, NothingTakenBack DEF Monotone
    <2>4. Issued(m) /\ Fresh(m.run)  BY <1>inv, <2>2 DEF IssueInv
    <2>. QED  BY <1>inv, <2>2, <2>3, <2>4, IssuedStays
  <1>new. ASSUME NEW m, Sends(m) PROVE Issued(m)'
    <2>1. /\ stage'[m.run] = "publishing" /\ idx'[m.run] = idx[m.run]
          /\ local'[m.run] = local[m.run]
      BY <1>new DEF Sends, Try, Busy
    <2>2. idx[m.run] \in Nat  BY <1>inv, <1>new, Indices DEF Sends
    <2>. QED  BY <1>new, <2>1, <2>2 DEF Sends, Issued
  <1>kept. \A m \in Events' : m \in Events \/ Sends(m)
    BY <1>inv, SentOrKept
  <1>. QED  BY <1>inv, <1>kept, <1>old, <1>new DEF IssueInv

\* An event and the answer of its run differ only over a failed publish: for every
\* DAG file and any number of runs, however late the writer is (Run with
\* KafkaPublisher.Publish).
THEOREM DisagreementsAreFailedPublishes == Spec => []OnlyPublishFailuresDisagree
  <1>init. Init => IssueInv
    BY RetryInit DEF Init, IssueInv, Events
  <1>inv. IssueInv => OnlyPublishFailuresDisagree
    BY DEF IssueInv, OnlyPublishFailuresDisagree, Events, Issued, Excused
  <1>. QED  BY <1>init, <1>inv, IssueStep, PTL DEF Spec
-----------------------------------------------------------------------------
(* How far the code is from what its comments say.                         *)

\* A node that is done was called, unless its max_retries is negative.
Called(q) ==
  \A i \in DOMAIN Nodes(q) :
    outcome[q][i] = "ok" /\ Nodes(q)[i].maxRetries >= 0 => tries[q][i] >= 1

\* A run has a score only from a scorer that counts as successful.
ScoredByNode(q) ==
  local[q].score # None =>
    \E i \in DOMAIN Nodes(q) : outcome[q][i] = "ok" /\ Nodes(q)[i].service = "model-service"

WitnessInv == AccountInv /\ \A q \in Runs : Called(q) /\ ScoredByNode(q)

\* Only the answer of the model service touches the score.
LEMMA AbsorbKeepsScore ==
  ASSUME NEW l \in Local, NEW c, NEW s \in Services, s # "model-service"
  PROVE  Absorb(l, c, s).score = l.score
  <1>hash. CASE s = "claimant-id-hashing-svc"  BY <1>hash DEF Absorb, Local
  <1>address. CASE s = "address-normalization-svc"  BY <1>address DEF Absorb, Local
  <1>policy. CASE s = "policy-lookup-svc"  BY <1>policy DEF Absorb, Local
  <1>publish. CASE s = "kafka-publisher"  BY <1>publish DEF Absorb
  <1>. QED  BY <1>hash, <1>address, <1>policy, <1>publish DEF Services

\* A score appears when a model-service node is done, and never otherwise.
LEMMA ScoreArrives ==
  ASSUME TypeInv, [Next]_vars, NEW q \in Runs, local'[q].score # None, local[q].score = None
  PROVE  Succeed(q) /\ CurrentNode(q).service = "model-service"
  <1>. USE DEF env, history, kafka
  <1>type. DOMAIN local = Runs /\ local[q] \in Local
    BY DEF TypeInv, TypeOK
  <1>kept. ASSUME local' = local PROVE FALSE
    BY <1>kept
  <1>other. ASSUME NEW r \in Runs, r # q, NEW l, local' = [local EXCEPT ![r] = l] PROVE FALSE
    BY <1>type, <1>other
  <1>fail. ASSUME NEW r \in Runs, NodeFailed(r) PROVE FALSE
    <2>1. local' = local \/ local' = [local EXCEPT ![r].status = StatusAfterFailure(r)]
      BY <1>fail DEF NodeFailed
    <2>2. local'[q] = local[q] \/ local'[q] = [local[q] EXCEPT !.status = StatusAfterFailure(r)]
      BY <1>type, <2>1
    <2>3. [local[q] EXCEPT !.status = StatusAfterFailure(r)].score = local[q].score
      BY <1>type DEF Local
    <2>. QED  BY <2>2, <2>3
  <1>done. ASSUME NEW r \in Runs, SkipAllAttempts(r) \/ AttemptSucceeds(r)
           PROVE  Succeed(q) /\ CurrentNode(q).service = "model-service"
    <2>1. r = q
      BY <1>done, <1>other DEF SkipAllAttempts, AttemptSucceeds, NodeDone
    <2>2. Succeed(q)  BY <1>done, <2>1, DoneMoves
    <2>. DEFINE s == CurrentNode(q).service
    <2>3. s \in Services
      BY <2>2 DEF Succeed, Busy, Runnable, RunsIn, Recognized, Stages, Services
    <2>4. \/ local'[q] = AbsorbNil(local[q], s)
          \/ local'[q] = Absorb(local[q], claim[q], s)
      BY <1>done, <1>type, <2>1 DEF SkipAllAttempts, AttemptSucceeds, NodeDone
    <2>. HIDE DEF s
    <2>5. local'[q] # AbsorbNil(local[q], s)
      <3>1. ASSUME NEW k, k = AbsorbNil(local[q], s) PROVE k.score = None
        BY <1>type, <2>3, <3>1, AbsorbNilEffect
      <3>. QED  BY <3>1
    <2>6. s # "model-service" => Absorb(local[q], claim[q], s).score = local[q].score
      BY <1>type, <2>3, AbsorbKeepsScore
    <2>7. s = "model-service"  BY <2>4, <2>5, <2>6
    <2>. QED  BY <2>2, <2>7 DEF s
  <1>run. ASSUME NEW r \in Runs, RunStep(r)
          PROVE  Succeed(q) /\ CurrentNode(q).service = "model-service"
    BY <1>run, <1>kept, <1>fail, <1>done
    DEF RunStep, ReadConfig, SkipNode, BeginCall, AttemptFails, LastAttemptFails,
        BackoffElapses, BackoffCancelled, EndEnrichment, EndScoring, ReturnResult
  <1>load. ASSUME NEW r \in Runs, ResolveVersion(r) \/ ResolveVersionFails(r) \/ CancelContext(r)
           PROVE  FALSE
    BY <1>load, <1>kept DEF ResolveVersion, ResolveVersionFails, CancelContext
  <1>writer. ASSUME NEW e \in inflight, Deliver(e) \/ Lose(e) PROVE FALSE
    BY <1>writer, <1>kept DEF Deliver, Lose
  <1>edit. ASSUME NEW p, NEW f, EditConfig(p, f) PROVE FALSE
    BY <1>edit, <1>kept DEF EditConfig
  <1>same. CASE UNCHANGED vars  BY <1>same, <1>kept DEF vars
  <1>. QED  BY <1>run, <1>load, <1>writer, <1>edit, <1>same DEF Next

\* A node that is done stays done, with at least as many attempts, and only the
\* current node gets done.
LEMMA DoneStaysDone ==
  ASSUME TypeInv, NEW q \in Runs, Move(q), ~Read(q), Fresh(q), NEW i \in DOMAIN Nodes(q)
  PROVE  /\ Nodes(q)' = Nodes(q)
         /\ outcome[q][i] = "ok" => outcome'[q][i] = "ok" /\ tries'[q][i] = tries[q][i]
         /\ outcome'[q][i] = "ok" /\ outcome[q][i] # "ok" => Succeed(q) /\ i = idx[q]
  <1>1. Nodes(q)' = Nodes(q)
    BY DEF Move, Stay, GiveUp, Pass, Advance, Try, Pause, Succeed, Fail, Resting, Quiet,
           Busy, Nodes
  <1>2. Busy(q) => outcome[q][idx[q]] = "notrun"
    BY CurrentOpen DEF Fresh
  <1>3. outcome[q][i] = "ok" => outcome'[q][i] = "ok" /\ tries'[q][i] = tries[q][i]
    BY <1>2, OtherNodes
  <1>4. CASE outcome'[q][i] = "ok" /\ outcome[q][i] # "ok"
    <2>1. i = idx[q] /\ Busy(q)  BY <1>4, OtherNodes
    <2>2. Succeed(q)
      BY <1>4, <2>1, Indices
      DEF Move, Stay, GiveUp, Pass, Advance, Try, Pause, Fail, Resting, Quiet
    <2>. QED  BY <1>1, <1>3, <2>1, <2>2
  <1>. QED  BY <1>1, <1>3, <1>4

\* Every step keeps the witnesses.
LEMMA WitnessStep == WitnessInv /\ [Next]_vars => WitnessInv'
  <1>. SUFFICES ASSUME WitnessInv, [Next]_vars PROVE WitnessInv'  OBVIOUS
  <1>inv. AccountInv' /\ RetryInv /\ TypeInv /\ TypeInv'
    BY AccountStep, TypeStep DEF WitnessInv, AccountInv, RetryInv
  <1>one. ASSUME NEW q \in Runs PROVE Called(q)' /\ ScoredByNode(q)'
    <2>here. Move(q) /\ Fresh(q) /\ Counted(q) /\ Called(q) /\ ScoredByNode(q) /\ Shape(q)
      BY <1>inv, EveryStepMoves DEF WitnessInv, RetryInv, TypeInv
    <2>read. CASE Read(q)
      <3>1. \A i \in DOMAIN Nodes(q)' : outcome'[q][i] # "ok"
        BY <1>inv, <2>read, ReadHistories
      <3>2. local'[q].score = None
        BY <2>here, <2>read DEF Read, Shape
      <3>. QED  BY <3>1, <3>2 DEF Called, ScoredByNode
    <2>else. CASE ~Read(q)
      <3>nodes. Nodes(q)' = Nodes(q)
        BY <2>here, <2>else
        DEF Move, Stay, GiveUp, Pass, Advance, Try, Pause, Succeed, Fail, Resting, Quiet,
            Busy, Nodes
      <3>kept. \A i \in DOMAIN Nodes(q) :
                 /\ outcome[q][i] = "ok" => outcome'[q][i] = "ok" /\ tries'[q][i] = tries[q][i]
                 /\ outcome'[q][i] = "ok" /\ outcome[q][i] # "ok" => Succeed(q) /\ i = idx[q]
        BY <1>inv, <2>here, <2>else, DoneStaysDone
      <3>done. ASSUME Succeed(q)
               PROVE  /\ idx[q] \in DOMAIN Nodes(q) /\ outcome'[q][idx[q]] = "ok"
                      /\ CurrentNode(q) = Nodes(q)[idx[q]]
                      /\ CurrentNode(q).maxRetries >= 0 => tries'[q][idx[q]] >= 1
        <4>1. /\ idx[q] \in DOMAIN Nodes(q) /\ CurrentNode(q) = Nodes(q)[idx[q]]
              /\ DOMAIN outcome[q] = DOMAIN Nodes(q)
              /\ attempt[q] \in Nat /\ CurrentNode(q).maxRetries \in Int
          BY <1>inv, <3>done, CurrentOpen, Indices DEF Succeed
        <4>2. /\ outcome'[q] = [outcome[q] EXCEPT ![idx[q]] = "ok"] /\ tries'[q] = tries[q]
              /\ CurrentNode(q).maxRetries < 0 \/ call[q] = "calling"
          BY <3>done DEF Succeed
        <4>3. call[q] = "calling" => tries[q][idx[q]] = attempt[q] + 1
          BY <2>here DEF Counted
        <4>. QED  BY <4>1, <4>2, <4>3
      <3>called. Called(q)'
        BY <2>here, <3>nodes, <3>kept, <3>done DEF Called
      <3>scored. ScoredByNode(q)'
        <4>1. CASE local[q].score # None
          BY <2>here, <3>nodes, <3>kept, <4>1 DEF ScoredByNode
        <4>2. CASE local[q].score = None /\ local'[q].score # None
          <5>1. Succeed(q) /\ CurrentNode(q).service = "model-service"
            BY <1>inv, <4>2, ScoreArrives
          <5>. QED  BY <3>nodes, <3>done, <5>1 DEF ScoredByNode
        <4>. QED  BY <4>1, <4>2 DEF ScoredByNode
      <3>. QED  BY <3>called, <3>scored
    <2>. QED  BY <2>read, <2>else
  <1>. QED  BY <1>inv, <1>one DEF WitnessInv

\* Nothing is done at first.
LEMMA WitnessInit == Init => WitnessInv
  <1>. SUFFICES ASSUME Init PROVE WitnessInv  OBVIOUS
  <1>1. \A q \in Runs : DOMAIN Nodes(q) = {}  BY DEF Init, Nodes
  <1>2. \A q \in Runs : local[q].score = None  BY DEF Init, InitLocal
  <1>. QED  BY <1>1, <1>2, AccountInit DEF WitnessInv, Called, ScoredByNode

\* The nodes that count as successful without having been called, against what
\* SuccessMeansCalled asks, are exactly those with a negative max_retries
\* (callWithResilience).
THEOREM OnlyNegativeRetriesSkipCalls ==
  Spec => [](\A r \in Runs : \A i \in DOMAIN Nodes(r) :
               outcome[r][i] = "ok" => (tries[r][i] = 0 <=> Nodes(r)[i].maxRetries < 0))
  <1>1. WitnessInv => \A r \in Runs : \A i \in DOMAIN Nodes(r) :
                        outcome[r][i] = "ok" => (tries[r][i] = 0 <=> Nodes(r)[i].maxRetries < 0)
    <2>. SUFFICES ASSUME WitnessInv, NEW r \in Runs, NEW i \in DOMAIN Nodes(r),
                         outcome[r][i] = "ok"
                  PROVE  tries[r][i] = 0 <=> Nodes(r)[i].maxRetries < 0
      OBVIOUS
    <2>1. Called(r) /\ Spent(r) /\ TypeInv  BY DEF WitnessInv, AccountInv, RetryInv
    <2>2. Nodes(r)[i].maxRetries \in Int /\ tries[r][i] \in Nat  BY <2>1, Indices
    <2>. QED  BY <2>1, <2>2 DEF Called, Spent
  <1>. QED  BY <1>1, WitnessInit, WitnessStep, PTL DEF Spec

\* A result that a failed node did not mark as degraded, against what
\* HandledFailureDegrades asks, lacks only scorers whose policy tolerates it, and
\* another scorer counts as successful (the scoring loop of Run).
THEOREM OnlyScorersFailSilently ==
  Spec => [](\A r \in Runs :
               answer[r] = "returned" /\ local[r].status = "scored" =>
                 /\ \A i \in DOMAIN Nodes(r) : outcome[r][i] = "handled" =>
                      Nodes(r)[i].service = "model-service"
                 /\ \E i \in DOMAIN Nodes(r) :
                      outcome[r][i] = "ok" /\ Nodes(r)[i].service = "model-service")
  <1>1. WitnessInv => \A r \in Runs :
                        answer[r] = "returned" /\ local[r].status = "scored" =>
                          /\ \A i \in DOMAIN Nodes(r) : outcome[r][i] = "handled" =>
                               Nodes(r)[i].service = "model-service"
                          /\ \E i \in DOMAIN Nodes(r) :
                               outcome[r][i] = "ok" /\ Nodes(r)[i].service = "model-service"
    <2>. SUFFICES ASSUME WitnessInv, NEW r \in Runs, answer[r] = "returned",
                         local[r].status = "scored"
                  PROVE  /\ \A i \in DOMAIN Nodes(r) : outcome[r][i] = "handled" =>
                              Nodes(r)[i].service = "model-service"
                         /\ \E i \in DOMAIN Nodes(r) :
                              outcome[r][i] = "ok" /\ Nodes(r)[i].service = "model-service"
      OBVIOUS
    <2>1. Tallied(r) /\ Placed(r) /\ ScoredByNode(r) /\ Shape(r)
      BY DEF WitnessInv, AccountInv, RetryInv, TypeInv
    <2>2. local[r].score # None  BY <2>1 DEF Placed, Shape
    <2>. QED  BY <2>1, <2>2 DEF Tallied, ScoredByNode
  <1>. QED  BY <1>1, WitnessInit, WitnessStep, PTL DEF Spec
=============================================================================
