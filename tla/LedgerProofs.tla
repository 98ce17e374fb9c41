---------------------------- MODULE LedgerProofs ----------------------------
(***************************************************************************)
(* What the executor did with every node of a DAG file, for every set of   *)
(* runs, claims and files: the retry budgets, the account an answer gives  *)
(* of the nodes, and the events behind the answer "scored".                *)
(*                                                                         *)
(* A step is seen from one run: it is one of nine moves of that run, and   *)
(* each move keeps the ledger of the run.                                  *)
(***************************************************************************)
EXTENDS ExecutorProofs

(* The moves.                                                              *)

\* The history and the locals of the run are left alone.
Quiet(q) ==
  /\ cfg'[q] = cfg[q] /\ outcome'[q] = outcome[q] /\ tries'[q] = tries[q]
  /\ local'[q] = local[q] /\ attempt'[q] = attempt[q]

\* Some other run, the caller, the writer or the operator moved.
Stay(q) ==
  /\ Quiet(q)
  /\ stage'[q] = stage[q] /\ idx'[q] = idx[q] /\ call'[q] = call[q] /\ answer'[q] = answer[q]

\* No call is under way, and none is begun.
Resting(q) == Quiet(q) /\ answer[q] = "pending" /\ call[q] = "none" /\ call'[q] = "none"

\* The run gives up between two calls.
GiveUp(q) ==
  /\ Resting(q)
  /\ answer'[q] = "failed" /\ stage'[q] = stage[q] /\ idx'[q] = idx[q]

\* The loop passes over a node.
Pass(q) ==
  /\ Resting(q)
  /\ stage[q] \in Stages /\ AtNode(q) /\ ~Runnable(q)
  /\ idx'[q] = idx[q] + 1 /\ stage'[q] = stage[q] /\ answer'[q] = answer[q]

\* The run goes on to the next stage, or returns.
Advance(q) ==
  /\ Resting(q)
  /\ \/ stage[q] = "version" /\ stage'[q] = "file" /\ idx'[q] = idx[q]
     \/ stage[q] = "enrichment" /\ stage'[q] = "scoring" /\ idx'[q] = 1 /\ ~AtNode(q)
     \/ stage[q] = "scoring" /\ stage'[q] = "publishing" /\ idx'[q] = 1 /\ ~AtNode(q)
     \/ stage[q] = "publishing" /\ stage'[q] = "publishing" /\ idx'[q] = idx[q] /\ ~AtNode(q)
  /\ answer'[q] = IF stage[q] = "publishing" THEN "returned" ELSE "pending"

\* The file is loaded.
Read(q) ==
  /\ answer[q] = "pending" /\ stage[q] = "file" /\ stage'[q] = "enrichment"
  /\ \A i \in DOMAIN outcome'[q] : outcome'[q][i] = "notrun"
  /\ \A i \in DOMAIN tries'[q] : tries'[q][i] = 0
  /\ local'[q] = local[q] /\ attempt'[q] = attempt[q] /\ idx'[q] = idx[q]
  /\ call'[q] = call[q] /\ answer'[q] = answer[q]

\* The run is at a node of its stage, before, in or after the call.
Busy(q) ==
  /\ answer[q] = "pending" /\ stage[q] \in Stages /\ Runnable(q)
  /\ cfg'[q] = cfg[q] /\ stage'[q] = stage[q]

\* An attempt is started.
Try(q) ==
  /\ Busy(q)
  /\ \/ call[q] = "none" /\ attempt'[q] = 0 /\ CurrentNode(q).maxRetries >= 0
     \/ call[q] = "backoff" /\ attempt'[q] = attempt[q] + 1
  /\ call'[q] \in {"calling", "doomed"}
  /\ tries'[q] = [tries[q] EXCEPT ![idx[q]] = @ + 1]
  /\ outcome'[q] = outcome[q] /\ local'[q] = local[q]
  /\ idx'[q] = idx[q] /\ answer'[q] = answer[q]

\* An attempt fails and is to be repeated.
Pause(q) ==
  /\ Busy(q) /\ Quiet(q)
  /\ call[q] \in {"calling", "doomed"} /\ call'[q] = "backoff"
  /\ attempt[q] < CurrentNode(q).maxRetries
  /\ idx'[q] = idx[q] /\ answer'[q] = answer[q]

\* The node is done.
Succeed(q) ==
  /\ Busy(q)
  /\ \/ call[q] = "none" /\ CurrentNode(q).maxRetries < 0
     \/ call[q] = "calling" /\ Acknowledged(q)
  /\ local'[q].status = local[q].status
  /\ outcome'[q] = [outcome[q] EXCEPT ![idx[q]] = "ok"]
  /\ tries'[q] = tries[q] /\ attempt'[q] = attempt[q]
  /\ idx'[q] = idx[q] + 1 /\ call'[q] = "none" /\ answer'[q] = answer[q]

\* The node is given up, by its policy with the run or without it.
Fail(q) ==
  /\ Busy(q)
  /\ \/ call[q] \in {"calling", "doomed"} /\ ~(attempt[q] < CurrentNode(q).maxRetries)
     \/ call[q] = "backoff" /\ ctxDone[q]
  /\ tries'[q] = tries[q] /\ attempt'[q] = attempt[q] /\ call'[q] = "none"
  /\ \/ /\ NodeFailureHandled(CurrentNode(q))
        /\ local'[q].status = StatusAfterFailure(q)
        /\ outcome'[q] = [outcome[q] EXCEPT ![idx[q]] = "handled"]
        /\ idx'[q] = idx[q] + 1 /\ answer'[q] = answer[q]
     \/ /\ local'[q] = local[q]
        /\ outcome'[q] = [outcome[q] EXCEPT ![idx[q]] = "aborted"]
        /\ idx'[q] = idx[q] /\ answer'[q] = "failed"

Move(q) ==
  \/ Stay(q) \/ GiveUp(q) \/ Pass(q) \/ Advance(q) \/ Read(q)
  \/ Try(q) \/ Pause(q) \/ Succeed(q) \/ Fail(q)

\* What no step takes back.
Monotone(q) ==
  claim' = claim /\ topic \subseteq topic' /\ (ctxDone[q] => ctxDone'[q])

\* No step takes anything back.
LEMMA NothingTakenBack ==
  ASSUME TypeInv, [Next]_vars, NEW q \in Runs
  PROVE  Monotone(q)
  <1>. USE DEF env, kafka, Monotone, TypeInv, TypeOK
  <1>run. ASSUME NEW r \in Runs, RunStep(r) PROVE Monotone(q)
    BY <1>run DEF RunStep, ReadConfig, SkipNode, BeginCall, SkipAllAttempts, AttemptSucceeds,
                  AttemptFails, LastAttemptFails, BackoffElapses, BackoffCancelled,
                  EndEnrichment, EndScoring, ReturnResult
  <1>load. ASSUME NEW r \in Runs, ResolveVersion(r) \/ ResolveVersionFails(r) \/ CancelContext(r)
           PROVE  Monotone(q)
    BY <1>load DEF ResolveVersion, ResolveVersionFails, CancelContext
  <1>writer. ASSUME NEW m, Deliver(m) \/ Lose(m) PROVE Monotone(q)
    BY <1>writer DEF Deliver, Lose
  <1>edit. ASSUME NEW p, NEW f, EditConfig(p, f) PROVE Monotone(q)
    BY <1>edit DEF EditConfig
  <1>same. CASE UNCHANGED vars  BY <1>same DEF vars
  <1>. QED  BY <1>run, <1>load, <1>writer, <1>edit, <1>same DEF Next

\* Absorbing an answer leaves the status alone.
LEMMA StatusKept ==
  ASSUME NEW l \in Local, NEW c, NEW s \in Services
  PROVE  Absorb(l, c, s).status = l.status /\ AbsorbNil(l, s).status = l.status
  BY DEF Services, Absorb, AbsorbNil, Local

\* The end of a node, seen from its run.
LEMMA DoneMoves ==
  ASSUME TypeInv, NEW q \in Runs, SkipAllAttempts(q) \/ AttemptSucceeds(q)
  PROVE  Succeed(q)
  <1>. USE DEF TypeInv, TypeOK, In
  <1>1. Runnable(q) /\ stage[q] \in Stages /\ answer[q] = "pending"
    BY DEF SkipAllAttempts, AttemptSucceeds, Shape
  <1>2. CurrentNode(q).service \in Services
    BY <1>1 DEF Runnable, RunsIn, Recognized, Stages, Services
  <1>3. ASSUME NEW l, NodeDone(q, l), l.status = local[q].status
        PROVE  /\ local'[q].status = local[q].status /\ call'[q] = "none"
               /\ outcome'[q] = [outcome[q] EXCEPT ![idx[q]] = "ok"] /\ idx'[q] = idx[q] + 1
    BY <1>3 DEF NodeDone
  <1>4. \/ NodeDone(q, AbsorbNil(local[q], CurrentNode(q).service))
        \/ NodeDone(q, Absorb(local[q], claim[q], CurrentNode(q).service))
    BY DEF SkipAllAttempts, AttemptSucceeds
  <1>5. local'[q].status = local[q].status /\ call'[q] = "none"
        /\ outcome'[q] = [outcome[q] EXCEPT ![idx[q]] = "ok"] /\ idx'[q] = idx[q] + 1
    <2>. DEFINE s == CurrentNode(q).service
    <2>1. local[q] \in Local  OBVIOUS
    <2>2. AbsorbNil(local[q], s).status = local[q].status
          /\ Absorb(local[q], claim[q], s).status = local[q].status
      BY <1>2, <2>1, StatusKept, Zenon
    <2>3. CASE NodeDone(q, AbsorbNil(local[q], s))  BY <1>3, <2>2, <2>3, Zenon
    <2>4. CASE NodeDone(q, Absorb(local[q], claim[q], s))  BY <1>3, <2>2, <2>4, Zenon
    <2>. QED  BY <1>4, <2>3, <2>4, Zenon
  <1>6. /\ \/ call[q] = "none" /\ CurrentNode(q).maxRetries < 0
           \/ call[q] = "calling" /\ Acknowledged(q)
        /\ UNCHANGED <<stage, answer, cfg, attempt, tries>>
    BY DEF SkipAllAttempts, AttemptSucceeds
  <1>. QED  BY <1>1, <1>5, <1>6 DEF Succeed, Busy

\* A node that is given up, seen from its run.
LEMMA FailMoves ==
  ASSUME TypeInv, NEW q \in Runs, LastAttemptFails(q) \/ BackoffCancelled(q)
  PROVE  Fail(q)
  <1>. USE DEF TypeInv, TypeOK, In
  <1>1. /\ Runnable(q) /\ stage[q] \in Stages /\ answer[q] = "pending"
        /\ UNCHANGED <<stage, cfg, attempt, tries>> /\ NodeFailed(q)
        /\ \/ call[q] \in {"calling", "doomed"} /\ ~(attempt[q] < CurrentNode(q).maxRetries)
           \/ call[q] = "backoff" /\ ctxDone[q]
    BY DEF LastAttemptFails, BackoffCancelled, Shape, RetriesLeft
  <1>2. call'[q] = "none"  BY <1>1 DEF NodeFailed
  <1>3. CASE NodeFailureHandled(CurrentNode(q))
    <2>1. /\ local' = [local EXCEPT ![q].status = StatusAfterFailure(q)]
          /\ outcome' = [outcome EXCEPT ![q][idx[q]] = "handled"]
          /\ idx' = [idx EXCEPT ![q] = @ + 1] /\ answer' = answer
      BY <1>1, <1>3 DEF NodeFailed
    <2>2. local'[q].status = StatusAfterFailure(q)
      BY <2>1 DEF Local
    <2>3. /\ outcome'[q] = [outcome[q] EXCEPT ![idx[q]] = "handled"]
          /\ idx'[q] = idx[q] + 1 /\ answer'[q] = answer[q]
      BY <2>1
    <2>. QED  BY <1>1, <1>2, <1>3, <2>2, <2>3 DEF Fail, Busy
  <1>4. CASE ~NodeFailureHandled(CurrentNode(q))
    <2>1. /\ outcome' = [outcome EXCEPT ![q][idx[q]] = "aborted"]
          /\ answer' = [answer EXCEPT ![q] = "failed"] /\ local' = local /\ idx' = idx
      BY <1>1, <1>4 DEF NodeFailed
    <2>2. outcome'[q] = [outcome[q] EXCEPT ![idx[q]] = "aborted"] /\ answer'[q] = "failed"
      BY <2>1
    <2>. QED  BY <1>1, <1>2, <2>1, <2>2 DEF Fail, Busy
  <1>. QED  BY <1>3, <1>4

\* Starting an attempt is the move Try.
LEMMA TryMoves ==
  ASSUME TypeInv, NEW q \in Runs, BeginCall(q) \/ BackoffElapses(q)
  PROVE  Try(q)
  <1>. USE DEF TypeInv, TypeOK, In
  <1>1. /\ Runnable(q) /\ stage[q] \in Stages /\ answer[q] = "pending"
        /\ UNCHANGED <<stage, answer, cfg, idx, local, outcome>>
        /\ \/ call[q] = "none" /\ StartAttempt(q, 0, event'[q]) /\ CurrentNode(q).maxRetries >= 0
           \/ call[q] = "backoff" /\ StartAttempt(q, attempt[q] + 1, event[q])
    BY DEF BeginCall, BackoffElapses, Shape
  <1>2. /\ call'[q] \in {"calling", "doomed"}
        /\ tries'[q] = [tries[q] EXCEPT ![idx[q]] = @ + 1]
    BY <1>1 DEF StartAttempt, AttemptContext
  <1>3. \/ call[q] = "none" /\ attempt'[q] = 0 /\ CurrentNode(q).maxRetries >= 0
        \/ call[q] = "backoff" /\ attempt'[q] = attempt[q] + 1
    BY <1>1 DEF StartAttempt
  <1>. QED  BY <1>1, <1>2, <1>3 DEF Try, Busy

\* Every step is a move of every run.
LEMMA EveryStepMoves ==
  ASSUME TypeInv, [Next]_vars, NEW q \in Runs
  PROVE  Move(q)
  <1>. USE DEF TypeInv, TypeOK, env, history, kafka
  <1>other. ASSUME NEW r \in Runs, r # q, RunStep(r) PROVE Stay(q)
    BY <1>other DEF Stay, Quiet, RunStep, ReadConfig, SkipNode, BeginCall, SkipAllAttempts,
                    AttemptSucceeds, AttemptFails, LastAttemptFails, BackoffElapses,
                    BackoffCancelled, EndEnrichment, EndScoring, ReturnResult,
                    StartAttempt, NodeDone, NodeFailed
  <1>read. CASE ReadConfig(q)
    <2>1. CASE disk[Path(claim[q])] \in Configs
      <3>. DEFINE file == disk[Path(claim[q])]
      <3>1. Len(file.nodes) \in Nat
        BY <2>1, ConfigsAssumption DEF Config
      <3>. HIDE DEF file
      <3>2. /\ answer[q] = "pending" /\ stage[q] = "file" /\ stage'[q] = "enrichment"
            /\ outcome'[q] = [i \in 1 .. Len(file.nodes) |-> "notrun"]
            /\ tries'[q] = [i \in 1 .. Len(file.nodes) |-> 0]
            /\ UNCHANGED <<answer, idx, call, attempt, local>>
        BY <1>read, <2>1 DEF ReadConfig, At, file
      <3>. QED  BY <3>1, <3>2 DEF Read, Move
    <2>2. CASE disk[Path(claim[q])] \notin Configs
      <3>1. /\ answer[q] = "pending" /\ answer'[q] = "failed" /\ stage[q] = "file"
            /\ UNCHANGED <<cfg, stage, outcome, tries, idx, call, attempt, local>>
        BY <1>read, <2>2 DEF ReadConfig, At
      <3>. QED  BY <3>1 DEF GiveUp, Resting, Quiet, Move, Shape, Stages
    <2>. QED  BY <2>1, <2>2
  <1>skip. CASE SkipNode(q)
    BY <1>skip DEF SkipNode, In, Pass, Resting, Quiet, Move
  <1>try. CASE BeginCall(q) \/ BackoffElapses(q)
    BY <1>try, TryMoves DEF Move
  <1>done. CASE SkipAllAttempts(q) \/ AttemptSucceeds(q)
    BY <1>done, DoneMoves DEF Move
  <1>pause. CASE AttemptFails(q)
    BY <1>pause DEF AttemptFails, In, RetriesLeft, Pause, Busy, Quiet, Shape, Move
  <1>fail. CASE LastAttemptFails(q) \/ BackoffCancelled(q)
    BY <1>fail, FailMoves DEF Move
  <1>ends. CASE EndEnrichment(q) \/ ReturnResult(q)
    BY <1>ends DEF EndEnrichment, ReturnResult, At, Advance, Resting, Quiet, Move
  <1>scored. CASE EndScoring(q)
    <2>1. CASE Unscored(q)
      BY <1>scored, <2>1 DEF EndScoring, At, GiveUp, Resting, Quiet, Move
    <2>2. CASE ~Unscored(q)
      <3>1. /\ stage[q] = "scoring" /\ answer[q] = "pending" /\ call[q] = "none" /\ ~AtNode(q)
            /\ stage'[q] = "publishing" /\ idx'[q] = 1
            /\ UNCHANGED <<answer, cfg, call, attempt, local, outcome, tries>>
        BY <1>scored, <2>2 DEF EndScoring, At
      <3>. QED  BY <3>1 DEF Advance, Resting, Quiet, Move
    <2>. QED  BY <2>1, <2>2
  <1>run. ASSUME NEW r \in Runs, RunStep(r) PROVE Move(q)
    <2>1. CASE r # q  BY <1>run, <1>other, <2>1 DEF Move
    <2>2. CASE r = q
      BY <1>run, <2>2, <1>read, <1>skip, <1>try, <1>done, <1>pause, <1>fail, <1>ends, <1>scored
         DEF RunStep
    <2>. QED  BY <2>1, <2>2
  <1>load. ASSUME NEW r \in Runs, ResolveVersion(r) \/ ResolveVersionFails(r) PROVE Move(q)
    <2>1. CASE r # q
      BY <1>load, <2>1 DEF ResolveVersion, ResolveVersionFails, Stay, Quiet, Move
    <2>2. CASE r = q
      BY <1>load, <2>2 DEF ResolveVersion, ResolveVersionFails, At, Advance, GiveUp, Resting,
                           Quiet, Move, Shape, Stages
    <2>. QED  BY <2>1, <2>2
  <1>rest. ASSUME UNCHANGED <<stage, answer, cfg, idx, call, attempt, local, outcome, tries>>
           PROVE  Move(q)
    BY <1>rest DEF Stay, Quiet, Move
  <1>cancel. ASSUME NEW r \in Runs, CancelContext(r) PROVE Move(q)
    BY <1>cancel, <1>rest DEF CancelContext
  <1>writer. ASSUME NEW m, Deliver(m) \/ Lose(m) PROVE Move(q)
    BY <1>writer, <1>rest DEF Deliver, Lose
  <1>edit. ASSUME NEW p, NEW f, EditConfig(p, f) PROVE Move(q)
    BY <1>edit, <1>rest DEF EditConfig
  <1>same. CASE UNCHANGED vars  BY <1>same, <1>rest DEF vars
  <1>. QED  BY <1>run, <1>load, <1>cancel, <1>writer, <1>edit, <1>same DEF Next
-----------------------------------------------------------------------------
(* The position of a run among the nodes.                                  *)

Rank(s) == CASE s = "enrichment" -> 1 [] s = "scoring" -> 2 [] s = "publishing" -> 3
             [] OTHER -> 0

\* The node is still to be called, or is being called.
Open(q, i) ==
  /\ answer[q] = "pending"
  /\ \E s \in Stages : /\ RunsIn(Nodes(q)[i], s, claim[q].tenant)
                       /\ Rank(s) > Rank(stage[q]) \/ (s = stage[q] /\ i >= idx[q])

\* The loop of the node's stage has left it.
Behind(q, i) ==
  \E s \in Stages : /\ RunsIn(Nodes(q)[i], s, claim[q].tenant)
                    /\ Rank(s) < Rank(stage[q]) \/ (s = stage[q] /\ i < idx[q])

\* A node is called in one stage only: no service is known to two loops.
LEMMA OneStage ==
  ASSUME NEW n, NEW s \in Stages, NEW t \in Stages, NEW c,
         RunsIn(n, s, c), RunsIn(n, t, c)
  PROVE  s = t
  <1>1. Recognized(n, s) /\ Recognized(n, t)  BY DEF RunsIn
  <1>2. /\ s = "enrichment" => n.service \notin {"model-service", "kafka-publisher"}
        /\ s = "scoring" => n.service = "model-service"
        /\ s = "publishing" => n.service = "kafka-publisher"
    BY <1>1 DEF Recognized
  <1>3. /\ t = "enrichment" => n.service \notin {"model-service", "kafka-publisher"}
        /\ t = "scoring" => n.service = "model-service"
        /\ t = "publishing" => n.service = "kafka-publisher"
    BY <1>1 DEF Recognized
  <1>. QED  BY <1>2, <1>3 DEF Stages

\* The nodes of a run and its histories have the same indices.
LEMMA Indices ==
  ASSUME TypeInv, NEW q \in Runs
  PROVE  /\ Len(Nodes(q)) \in Nat /\ DOMAIN Nodes(q) = 1 .. Len(Nodes(q))
         /\ \A i \in DOMAIN Nodes(q) : Nodes(q)[i].maxRetries \in Int
         /\ DOMAIN outcome[q] = DOMAIN Nodes(q) /\ DOMAIN tries[q] = DOMAIN Nodes(q)
         /\ \A i \in DOMAIN Nodes(q) : tries[q][i] \in Nat
         /\ idx[q] \in Nat /\ idx[q] >= 1 /\ attempt[q] \in Nat
         /\ AtNode(q) <=> idx[q] \in DOMAIN Nodes(q)
         /\ CurrentNode(q) = Nodes(q)[idx[q]]
         /\ local[q] \in Local
  <1>1. /\ cfg[q] \in Config /\ outcome[q] \in Seq(NodeOutcome) /\ tries[q] \in Seq(Nat)
        /\ Len(outcome[q]) = Len(cfg[q].nodes) /\ Len(tries[q]) = Len(cfg[q].nodes)
        /\ idx[q] \in Nat \ {0} /\ attempt[q] \in Nat /\ local[q] \in Local
    BY DEF TypeInv, TypeOK, Shape
  <1>2. Nodes(q) \in Seq(Node) /\ Nodes(q) = cfg[q].nodes  BY <1>1 DEF Nodes, Config
  <1>3. \A i \in DOMAIN Nodes(q) : Nodes(q)[i] \in Node
    BY <1>2, LenProperties, ElementOfSeq, Zenon
  <1>4. Len(Nodes(q)) \in Nat /\ DOMAIN Nodes(q) = 1 .. Len(Nodes(q))  BY <1>2
  <1>5. DOMAIN outcome[q] = DOMAIN Nodes(q) /\ DOMAIN tries[q] = DOMAIN Nodes(q)
    BY <1>1, <1>2, <1>4, LenProperties
  <1>6. \A i \in DOMAIN tries[q] : tries[q][i] \in Nat
    BY <1>1, LenProperties, ElementOfSeq, Zenon
  <1>7. \A i \in DOMAIN Nodes(q) : Nodes(q)[i].maxRetries \in Int  BY <1>3 DEF Node
  <1>8. AtNode(q) <=> idx[q] \in DOMAIN Nodes(q)  BY <1>1, <1>2, <1>4 DEF AtNode
  <1>. QED  BY <1>1, <1>2, <1>4, <1>5, <1>6, <1>7, <1>8 DEF CurrentNode

\* A move never opens a node, and only the current one can be left behind; a move
\* that ends a call leaves it.
LEMMA Positions ==
  ASSUME TypeInv, TypeInv', NEW q \in Runs, Monotone(q), Move(q), ~Read(q),
         NEW i \in DOMAIN Nodes(q)
  PROVE  /\ Nodes(q)' = Nodes(q)
         /\ Open(q, i)' => Open(q, i)
         /\ Behind(q, i)' => Behind(q, i) \/ ((Succeed(q) \/ Fail(q)) /\ i = idx[q])
         /\ (Succeed(q) \/ Fail(q)) /\ Open(q, i)' => i # idx[q]
  <1>. DEFINE R(s) == RunsIn(Nodes(q)[i], s, claim[q].tenant)
  <1>1. Nodes(q)' = Nodes(q) /\ claim' = claim
    BY DEF Move, Stay, GiveUp, Pass, Advance, Try, Pause, Succeed, Fail, Resting, Quiet,
           Busy, Nodes, Monotone
  <1>2. i \in Nat /\ i <= Len(Nodes(q)) /\ idx[q] \in Nat /\ idx[q] >= 1 /\ idx'[q] \in Nat
        /\ Len(Nodes(q)) \in Nat
    <2>1. idx'[q] \in Nat  BY DEF TypeInv, TypeOK
    <2>2. /\ Len(Nodes(q)) \in Nat /\ DOMAIN Nodes(q) = 1 .. Len(Nodes(q))
          /\ idx[q] \in Nat /\ idx[q] >= 1
      BY Indices, Zenon
    <2>. QED  BY <2>1, <2>2
  <1>3. /\ Open(q, i)' <=> /\ answer'[q] = "pending"
                           /\ \E s \in Stages : R(s) /\ (Rank(s) > Rank(stage'[q])
                                                         \/ (s = stage'[q] /\ i >= idx'[q]))
        /\ Behind(q, i)' <=> \E s \in Stages : R(s) /\ (Rank(s) < Rank(stage'[q])
                                                         \/ (s = stage'[q] /\ i < idx'[q]))
    BY <1>1 DEF Open, Behind
  <1>4. /\ Open(q, i) <=> /\ answer[q] = "pending"
                          /\ \E s \in Stages : R(s) /\ (Rank(s) > Rank(stage[q])
                                                        \/ (s = stage[q] /\ i >= idx[q]))
        /\ Behind(q, i) <=> \E s \in Stages : R(s) /\ (Rank(s) < Rank(stage[q])
                                                        \/ (s = stage[q] /\ i < idx[q]))
    BY DEF Open, Behind
  <1>5. ~AtNode(q) => i < idx[q]
    BY <1>2, Indices
  <1>6. Runnable(q) /\ i = idx[q] => R(stage[q])
    BY DEF Runnable, CurrentNode, Nodes
  <1>7. AtNode(q) /\ ~Runnable(q) /\ i = idx[q] => ~R(stage[q])
    BY DEF Runnable, CurrentNode, Nodes
  <1>8. \A s, t \in Stages : R(s) /\ R(t) => s = t
    BY OneStage
  <1>. HIDE DEF R
  <1>stay. CASE Stay(q) \/ GiveUp(q) \/ Try(q) \/ Pause(q)
    <2>1. stage'[q] = stage[q] /\ idx'[q] = idx[q]
          /\ (answer'[q] = "pending" => answer[q] = "pending")
      BY <1>stay DEF Stay, GiveUp, Try, Pause, Busy, Resting
    <2>2. (~Succeed(q) /\ ~Fail(q)) \/ idx'[q] # idx[q] \/ answer'[q] = "failed"
      BY <1>2, Indices DEF Succeed, Fail
    <2>. QED  BY <1>1, <1>3, <1>4, <2>1, <2>2
  <1>pass. CASE Pass(q)
    <2>1. stage'[q] = stage[q] /\ idx'[q] = idx[q] + 1 /\ answer'[q] = answer[q]
          /\ AtNode(q) /\ ~Runnable(q)
      BY <1>pass DEF Pass
    <2>2. ~Succeed(q) /\ ~Fail(q)  BY <2>1 DEF Succeed, Fail, Busy
    <2>. QED  BY <1>1, <1>2, <1>3, <1>4, <1>7, <2>1, <2>2
  <1>advance. CASE Advance(q)
    <2>1. ~Succeed(q) /\ ~Fail(q)
      BY <1>advance, Indices DEF Advance, Succeed, Fail, Busy, Runnable, Resting
    <2>. QED
      BY <1>1, <1>2, <1>3, <1>4, <1>5, <1>advance, <2>1 DEF Advance, Resting, Rank, Stages
  <1>done. CASE Succeed(q) \/ Fail(q)
    <2>1. /\ stage'[q] = stage[q] /\ stage[q] \in Stages /\ answer[q] = "pending" /\ Runnable(q)
          /\ \/ idx'[q] = idx[q] + 1
             \/ idx'[q] = idx[q] /\ answer'[q] # "pending"
      BY <1>done DEF Succeed, Fail, Busy
    <2>2. i = idx[q] /\ idx'[q] = idx[q] + 1 => ~Open(q, i)'
      BY <1>2, <1>3, <1>6, <1>8, <2>1 DEF Rank, Stages
    <2>. QED  BY <1>1, <1>2, <1>3, <1>4, <1>done, <2>1, <2>2
  <1>. QED  BY <1>stay, <1>pass, <1>advance, <1>done DEF Move
-----------------------------------------------------------------------------
(* The ledger of a run.                                                    *)

\* An open node has no history, except for the attempts of the call under way.
Fresh(q) ==
  \A i \in DOMAIN Nodes(q) : Open(q, i) =>
    /\ outcome[q][i] = "notrun"
    /\ i # idx[q] \/ call[q] = "none" => tries[q][i] = 0

\* The attempts of a call are counted from 0 and are within the budget.
Counted(q) ==
  call[q] # "none" =>
    /\ answer[q] = "pending"
    /\ tries[q][idx[q]] = attempt[q] + 1
    /\ attempt[q] <= CurrentNode(q).maxRetries
    /\ call[q] = "backoff" => attempt[q] < CurrentNode(q).maxRetries

\* RetryBudgetKept, for one run.
Spent(q) ==
  \A i \in DOMAIN Nodes(q) :
    /\ tries[q][i] > 0 => tries[q][i] <= 1 + Nodes(q)[i].maxRetries
    /\ outcome[q][i] \in {"handled", "aborted"} =>
         tries[q][i] = 1 + Nodes(q)[i].maxRetries \/ ctxDone[q]

RetryInv == TypeInv /\ \A q \in Runs : Fresh(q) /\ Counted(q) /\ Spent(q)

\* Loading a file starts clean histories.
LEMMA ReadHistories ==
  ASSUME TypeInv', NEW q \in Runs, Read(q)
  PROVE  \A i \in DOMAIN Nodes(q)' : outcome'[q][i] = "notrun" /\ tries'[q][i] = 0
  <1>1. /\ cfg'[q].nodes \in Seq(Node)
        /\ outcome'[q] \in Seq(NodeOutcome) /\ Len(outcome'[q]) = Len(cfg'[q].nodes)
        /\ tries'[q] \in Seq(Nat) /\ Len(tries'[q]) = Len(cfg'[q].nodes)
    BY DEF TypeInv, TypeOK, Shape, Config
  <1>2. DOMAIN outcome'[q] = DOMAIN cfg'[q].nodes /\ DOMAIN tries'[q] = DOMAIN cfg'[q].nodes
    BY <1>1, LenProperties
  <1>. QED  BY <1>2 DEF Read, Nodes

\* And nothing is spent yet.
LEMMA ReadRetries ==
  ASSUME TypeInv', NEW q \in Runs, Read(q), Shape(q)
  PROVE  Fresh(q)' /\ Counted(q)' /\ Spent(q)'
  <1>1. \A i \in DOMAIN Nodes(q)' : outcome'[q][i] = "notrun" /\ tries'[q][i] = 0
    BY ReadHistories
  <1>2. call'[q] = "none"
    BY DEF Read, Shape, Stages
  <1>. QED  BY <1>1, <1>2 DEF Fresh, Counted, Spent

\* The history of a node that is not the current one is not touched.
LEMMA OtherNodes ==
  ASSUME TypeInv, NEW q \in Runs, Move(q), ~Read(q), NEW i \in DOMAIN Nodes(q),
         i # idx[q] \/ ~Busy(q)
  PROVE  outcome'[q][i] = outcome[q][i] /\ tries'[q][i] = tries[q][i]
  BY Indices DEF Move, Stay, GiveUp, Pass, Advance, Try, Pause, Succeed, Fail, Resting, Quiet

\* The current node of a busy run is open.
LEMMA CurrentOpen ==
  ASSUME TypeInv, NEW q \in Runs, Busy(q)
  PROVE  idx[q] \in DOMAIN Nodes(q) /\ Open(q, idx[q])
  BY Indices DEF Busy, Runnable, Open, Nodes, CurrentNode

\* Every other move keeps the budget.
LEMMA MoveRetries ==
  ASSUME TypeInv, TypeInv', NEW q \in Runs, Monotone(q), Move(q), ~Read(q),
         Fresh(q), Counted(q), Spent(q)
  PROVE  Fresh(q)' /\ Counted(q)' /\ Spent(q)'
  <1>. DEFINE k == idx[q]
              M == Nodes(q)[k].maxRetries
  <1>1. /\ CurrentNode(q) = Nodes(q)[k] /\ attempt[q] \in Nat
        /\ DOMAIN outcome[q] = DOMAIN Nodes(q) /\ DOMAIN tries[q] = DOMAIN Nodes(q)
        /\ k \in DOMAIN Nodes(q) => M \in Int /\ tries[q][k] \in Nat
    BY Indices
  <1>2. Nodes(q)' = Nodes(q)
    BY DEF Move, Stay, GiveUp, Pass, Advance, Try, Pause, Succeed, Fail, Resting, Quiet,
           Busy, Nodes
  <1>3. Busy(q) => k \in DOMAIN Nodes(q) /\ Open(q, k)
    BY CurrentOpen
  <1>4. Counted(q) <=> (call[q] # "none" =>
                          /\ answer[q] = "pending"
                          /\ tries[q][k] = attempt[q] + 1 /\ attempt[q] <= M
                          /\ call[q] = "backoff" => attempt[q] < M)
    BY <1>1 DEF Counted
  <1>5. Counted(q)' <=> (call'[q] # "none" =>
                          /\ answer'[q] = "pending"
                          /\ tries'[q][idx'[q]] = attempt'[q] + 1
                          /\ attempt'[q] <= Nodes(q)[idx'[q]].maxRetries
                          /\ call'[q] = "backoff" => attempt'[q] < Nodes(q)[idx'[q]].maxRetries)
    BY <1>2 DEF Counted, CurrentNode, Nodes
  <1>6. Fresh(q)'
    <2>. SUFFICES ASSUME NEW i \in DOMAIN Nodes(q), Open(q, i)'
                  PROVE  /\ outcome'[q][i] = "notrun"
                         /\ i # idx'[q] \/ call'[q] = "none" => tries'[q][i] = 0
      BY <1>2 DEF Fresh
    <2>1. Open(q, i) /\ ((Succeed(q) \/ Fail(q)) => i # k)  BY Positions
    <2>2. outcome[q][i] = "notrun" /\ (i # k \/ call[q] = "none" => tries[q][i] = 0)
      BY <2>1 DEF Fresh
    <2>3. CASE i # k
      BY <2>2, <2>3, OtherNodes
    <2>4. CASE i = k /\ ~Busy(q)
      <3>1. outcome'[q][i] = outcome[q][i] /\ tries'[q][i] = tries[q][i]
        BY <2>4, OtherNodes
      <3>2. call'[q] = call[q] /\ (idx'[q] = idx[q] \/ call[q] = "none")
        BY <2>4 DEF Move, Stay, GiveUp, Pass, Advance, Try, Pause, Succeed, Fail, Resting
      <3>. QED  BY <2>2, <2>4, <3>1, <3>2
    <2>5. CASE i = k /\ Busy(q) /\ (Try(q) \/ Pause(q))
      BY <2>2, <2>5 DEF Try, Pause, Quiet
    <2>6. CASE i = k /\ (Stay(q) \/ GiveUp(q) \/ Pass(q) \/ Advance(q))
      BY <2>2, <2>6 DEF Stay, GiveUp, Pass, Advance, Resting, Quiet
    <2>. QED  BY <2>1, <2>3, <2>4, <2>5, <2>6 DEF Move
  <1>try. CASE Try(q)
    <2>1. /\ tries'[q] = [tries[q] EXCEPT ![k] = @ + 1] /\ idx'[q] = idx[q]
          /\ answer'[q] = "pending" /\ call'[q] \in {"calling", "doomed"}
          /\ k \in DOMAIN tries[q] /\ outcome'[q] = outcome[q]
          /\ Open(q, k)
      BY <1>1, <1>3, <1>try DEF Try, Busy
    <2>2. tries'[q][k] = attempt'[q] + 1 /\ attempt'[q] <= M /\ attempt'[q] \in Nat
      <3>1. CASE call[q] = "none" /\ attempt'[q] = 0 /\ CurrentNode(q).maxRetries >= 0
        <4>1. tries[q][k] = 0  BY <1>3, <2>1, <3>1, <1>try DEF Fresh, Try
        <4>. QED  BY <1>1, <2>1, <3>1, <4>1
      <3>2. CASE call[q] = "backoff" /\ attempt'[q] = attempt[q] + 1
        BY <1>1, <1>3, <1>4, <2>1, <3>2, <1>try DEF Try
      <3>. QED  BY <3>1, <3>2, <1>try DEF Try
    <2>3. Counted(q)'
      BY <1>5, <2>1, <2>2
    <2>4. Spent(q)'
      <3>. SUFFICES ASSUME NEW i \in DOMAIN Nodes(q)
                    PROVE  /\ tries'[q][i] > 0 => tries'[q][i] <= 1 + Nodes(q)[i].maxRetries
                           /\ outcome'[q][i] \in {"handled", "aborted"} =>
                                tries'[q][i] = 1 + Nodes(q)[i].maxRetries \/ ctxDone'[q]
        BY <1>2 DEF Spent
      <3>1. CASE i = k
        <4>1. outcome[q][k] = "notrun"  BY <1>3, <2>1, <1>try DEF Fresh, Try
        <4>. QED  BY <1>1, <1>3, <2>1, <2>2, <3>1, <4>1, <1>try DEF Try
      <3>2. CASE i # k
        BY <3>2, OtherNodes DEF Spent, Monotone
      <3>. QED  BY <3>1, <3>2
    <2>. QED  BY <1>6, <2>3, <2>4
  <1>fail. CASE Fail(q)
    <2>1. call'[q] = "none" /\ tries'[q] = tries[q]  BY <1>fail DEF Fail
    <2>2. k \in DOMAIN Nodes(q)  BY <1>3, <1>fail DEF Fail
    <2>3. tries[q][k] = 1 + M \/ ctxDone[q]
      <3>1. CASE call[q] \in {"calling", "doomed"} /\ ~(attempt[q] < CurrentNode(q).maxRetries)
        BY <1>1, <1>4, <2>2, <3>1
      <3>2. CASE ctxDone[q]  BY <3>2
      <3>. QED  BY <3>1, <3>2, <1>fail DEF Fail
    <2>4. Spent(q)'
      <3>. SUFFICES ASSUME NEW i \in DOMAIN Nodes(q)
                    PROVE  /\ tries'[q][i] > 0 => tries'[q][i] <= 1 + Nodes(q)[i].maxRetries
                           /\ outcome'[q][i] \in {"handled", "aborted"} =>
                                tries'[q][i] = 1 + Nodes(q)[i].maxRetries \/ ctxDone'[q]
        BY <1>2 DEF Spent
      <3>1. CASE i = k  BY <2>1, <2>3, <3>1 DEF Spent, Monotone
      <3>2. CASE i # k  BY <3>2, OtherNodes DEF Spent, Monotone
      <3>. QED  BY <3>1, <3>2
    <2>. QED  BY <1>5, <1>6, <2>1, <2>4
  <1>done. CASE Succeed(q)
    <2>1. /\ call'[q] = "none" /\ tries'[q] = tries[q]
          /\ outcome'[q] = [outcome[q] EXCEPT ![k] = "ok"]
      BY <1>done DEF Succeed
    <2>2. \A i \in DOMAIN Nodes(q) : outcome'[q][i] = outcome[q][i] \/ outcome'[q][i] = "ok"
      BY <1>1, <2>1
    <2>3. Spent(q)'  BY <1>2, <2>1, <2>2 DEF Spent, Monotone
    <2>. QED  BY <1>5, <1>6, <2>1, <2>3
  <1>quiet. CASE Stay(q) \/ GiveUp(q) \/ Pass(q) \/ Advance(q) \/ Pause(q)
    <2>0. Quiet(q)
      BY <1>quiet DEF Stay, GiveUp, Pass, Advance, Pause, Resting
    <2>1. Spent(q)'  BY <1>2, <2>0 DEF Spent, Quiet, Monotone
    <2>2. \/ call'[q] = "none"
          \/ /\ idx'[q] = idx[q] /\ answer'[q] = answer[q]
             /\ call'[q] = call[q] \/ (call[q] # "none" /\ attempt[q] < CurrentNode(q).maxRetries)
      BY <1>quiet DEF Stay, GiveUp, Pass, Advance, Pause, Resting
    <2>3. Counted(q)'  BY <1>1, <1>4, <1>5, <2>0, <2>2 DEF Quiet
    <2>. QED  BY <1>6, <2>1, <2>3
  <1>. QED
    BY <1>try, <1>fail, <1>done, <1>quiet DEF Move

\* No attempt has been made at first.
LEMMA RetryInit == Init => RetryInv
  <1>. SUFFICES ASSUME Init PROVE RetryInv  OBVIOUS
  <1>1. \A q \in Runs : DOMAIN Nodes(q) = {} /\ call[q] = "none"  BY DEF Init, Nodes
  <1>. QED  BY <1>1, TypeInit DEF RetryInv, Fresh, Counted, Spent

\* Each move keeps the count of attempts.
LEMMA RetryStep == RetryInv /\ [Next]_vars => RetryInv'
  <1>. SUFFICES ASSUME RetryInv, [Next]_vars PROVE RetryInv'  OBVIOUS
  <1>1. TypeInv /\ TypeInv'  BY TypeStep DEF RetryInv
  <1>2. ASSUME NEW q \in Runs PROVE Fresh(q)' /\ Counted(q)' /\ Spent(q)'
    <2>1. Move(q) /\ Monotone(q) /\ Fresh(q) /\ Counted(q) /\ Spent(q) /\ Shape(q)
      BY <1>1, EveryStepMoves, NothingTakenBack DEF RetryInv, TypeInv
    <2>2. CASE Read(q)  BY <1>1, <2>1, <2>2, ReadRetries
    <2>3. CASE ~Read(q)  BY <1>1, <2>1, <2>3, MoveRetries
    <2>. QED  BY <2>2, <2>3
  <1>. QED  BY <1>1, <1>2 DEF RetryInv

\* No node is called more often than its budget allows, and none is given up
\* earlier unless the caller is gone: for every DAG file, any number of runs, and
\* every race of answers, timeouts, backoffs and the caller (callWithResilience).
THEOREM RetryBudgets == Spec => []RetryBudgetKept
  <1>1. RetryInv => RetryBudgetKept  BY DEF RetryInv, Spent, RetryBudgetKept
  <1>. QED  BY <1>1, RetryInit, RetryStep, PTL DEF Spec
-----------------------------------------------------------------------------
(* The account an answer gives.                                            *)

\* A node the run has left behind was done, or failed with a tolerant policy.
Settled(q) ==
  \A i \in DOMAIN Nodes(q) : Behind(q, i) =>
    \/ outcome[q][i] = "ok"
    \/ outcome[q][i] = "handled" /\ Nodes(q)[i].onFailure \in {"skip", "degrade"}

\* The status says whether a node other than a scorer has failed so far.
Tallied(q) ==
  local[q].status = "degraded" <=>
    \E i \in DOMAIN Nodes(q) :
      outcome[q][i] = "handled" /\ Nodes(q)[i].service # "model-service"

\* A run starts at the first node with a clean status, and returns after the last.
Placed(q) ==
  /\ stage[q] \in {"version", "file"} => idx[q] = 1 /\ local[q].status = "scored"
  /\ answer[q] = "returned" => stage[q] = "publishing" /\ ~AtNode(q)

AccountInv == RetryInv /\ \A q \in Runs : Settled(q) /\ Tallied(q) /\ Placed(q)

\* A node is not both open and behind.
LEMMA OpenOrBehind ==
  ASSUME TypeInv, NEW q \in Runs, NEW i \in DOMAIN Nodes(q), Open(q, i), Behind(q, i)
  PROVE  FALSE
  <1>1. i \in Nat /\ idx[q] \in Nat  BY Indices
  <1>2. PICK s \in Stages : /\ RunsIn(Nodes(q)[i], s, claim[q].tenant)
                            /\ Rank(s) > Rank(stage[q]) \/ (s = stage[q] /\ i >= idx[q])
    BY DEF Open
  <1>3. PICK t \in Stages : /\ RunsIn(Nodes(q)[i], t, claim[q].tenant)
                            /\ Rank(t) < Rank(stage[q]) \/ (t = stage[q] /\ i < idx[q])
    BY DEF Behind
  <1>4. s = t  BY <1>2, <1>3, OneStage
  <1>5. \A x : Rank(x) \in Nat  BY DEF Rank
  <1>. QED  BY <1>1, <1>2, <1>3, <1>4, <1>5

\* Loading a file starts a clean account.
LEMMA ReadAccount ==
  ASSUME TypeInv, TypeInv', NEW q \in Runs, Read(q), Placed(q)
  PROVE  Settled(q)' /\ Tallied(q)' /\ Placed(q)'
  <1>1. /\ stage'[q] = "enrichment" /\ idx'[q] = 1 /\ local'[q].status = "scored"
        /\ answer'[q] = "pending"
    BY DEF Read, Placed
  <1>2. \A i \in DOMAIN Nodes(q)' : i \in Nat /\ i >= 1
    <2>1. Nodes(q)' \in Seq(Node)  BY DEF TypeInv, TypeOK, Config, Nodes
    <2>. QED  BY <2>1
  <1>3. ASSUME NEW i \in DOMAIN Nodes(q)' PROVE ~Behind(q, i)'
    BY <1>1, <1>2, <1>3 DEF Behind, Rank, Stages
  <1>4. Settled(q)'  BY <1>3 DEF Settled
  <1>5. Tallied(q)' /\ Placed(q)'  BY <1>1, ReadHistories DEF Tallied, Placed
  <1>. QED  BY <1>4, <1>5

\* Every other move keeps the account.
LEMMA MoveAccount ==
  ASSUME TypeInv, TypeInv', NEW q \in Runs, Monotone(q), Move(q), ~Read(q),
         Fresh(q), Settled(q), Tallied(q), Placed(q)
  PROVE  Settled(q)' /\ Tallied(q)' /\ Placed(q)'
  <1>. DEFINE k == idx[q]
  <1>1. /\ CurrentNode(q) = Nodes(q)[k] /\ DOMAIN outcome[q] = DOMAIN Nodes(q)
        /\ local[q].status \in {"scored", "degraded"}
    BY Indices DEF Local
  <1>2. Nodes(q)' = Nodes(q) /\ cfg'[q] = cfg[q]
    BY DEF Move, Stay, GiveUp, Pass, Advance, Try, Pause, Succeed, Fail, Resting, Quiet,
           Busy, Nodes
  <1>3. Busy(q) => /\ k \in DOMAIN Nodes(q) /\ Open(q, k) /\ outcome[q][k] = "notrun"
                   /\ ~Behind(q, k)
    BY CurrentOpen, OpenOrBehind DEF Fresh
  <1>4. Settled(q)'
    <2>. SUFFICES ASSUME NEW i \in DOMAIN Nodes(q), Behind(q, i)'
                  PROVE  \/ outcome'[q][i] = "ok"
                         \/ /\ outcome'[q][i] = "handled"
                            /\ Nodes(q)[i].onFailure \in {"skip", "degrade"}
      BY <1>2 DEF Settled
    <2>1. CASE Behind(q, i)
      <3>1. outcome'[q][i] = outcome[q][i]  BY <1>3, <2>1, OtherNodes
      <3>. QED  BY <2>1, <3>1 DEF Settled
    <2>2. CASE Succeed(q) /\ i = k
      BY <1>1, <2>2 DEF Succeed
    <2>3. CASE Fail(q) /\ i = k
      <3>1. CASE NodeFailureHandled(CurrentNode(q))
                   /\ outcome'[q] = [outcome[q] EXCEPT ![idx[q]] = "handled"]
        BY <1>1, <2>3, <3>1 DEF NodeFailureHandled, EffectiveOnFailure
      <3>2. CASE idx'[q] = idx[q]
        <4>1. Behind(q, i)  BY <1>2, <2>3, <3>2 DEF Behind, Fail, Busy, Monotone
        <4>. QED  BY <1>3, <2>3, <4>1 DEF Fail
      <3>. QED  BY <2>3, <3>1, <3>2 DEF Fail
    <2>. QED  BY <2>1, <2>2, <2>3, Positions
  <1>5. Tallied(q)'
    <2>1. Tallied(q)' <=> (local'[q].status = "degraded" <=>
                            \E i \in DOMAIN Nodes(q) :
                              outcome'[q][i] = "handled" /\ Nodes(q)[i].service # "model-service")
      BY <1>2 DEF Tallied
    <2>2. CASE Stay(q) \/ GiveUp(q) \/ Pass(q) \/ Advance(q) \/ Pause(q) \/ Try(q)
      <3>1. local'[q] = local[q] /\ outcome'[q] = outcome[q]
        BY <2>2 DEF Stay, GiveUp, Pass, Advance, Pause, Try, Resting, Quiet
      <3>. QED  BY <2>1, <3>1 DEF Tallied
    <2>3. CASE Succeed(q)
      <3>1. local'[q].status = local[q].status
            /\ \A i \in DOMAIN Nodes(q) : outcome'[q][i] = IF i = k THEN "ok" ELSE outcome[q][i]
        BY <1>1, <2>3 DEF Succeed
      <3>2. outcome[q][k] = "notrun"  BY <1>3, <2>3 DEF Succeed
      <3>. QED  BY <2>1, <3>1, <3>2 DEF Tallied
    <2>4. CASE Fail(q)
      <3>1. outcome[q][k] = "notrun" /\ k \in DOMAIN Nodes(q)  BY <1>3, <2>4 DEF Fail
      <3>2. CASE /\ local'[q].status = StatusAfterFailure(q)
                 /\ outcome'[q] = [outcome[q] EXCEPT ![idx[q]] = "handled"]
        <4>1. \A i \in DOMAIN Nodes(q) : outcome'[q][i] = IF i = k THEN "handled" ELSE outcome[q][i]
          BY <1>1, <3>2
        <4>2. stage[q] = "scoring" <=> Nodes(q)[k].service = "model-service"
          BY <1>1, <2>4 DEF Fail, Busy, Runnable, RunsIn, Recognized, Stages
        <4>. QED  BY <2>1, <3>1, <3>2, <4>1, <4>2 DEF Tallied, StatusAfterFailure
      <3>3. CASE /\ local'[q] = local[q]
                 /\ outcome'[q] = [outcome[q] EXCEPT ![idx[q]] = "aborted"]
        <4>1. \A i \in DOMAIN Nodes(q) : outcome'[q][i] = IF i = k THEN "aborted" ELSE outcome[q][i]
          BY <1>1, <3>3
        <4>. QED  BY <2>1, <3>1, <3>3, <4>1 DEF Tallied
      <3>. QED  BY <2>4, <3>2, <3>3 DEF Fail
    <2>. QED  BY <2>2, <2>3, <2>4 DEF Move
  <1>6. Placed(q)'
    <2>1. AtNode(q)' <=> idx'[q] <= Len(cfg[q].nodes)  BY <1>2 DEF AtNode
    <2>. QED
      BY <2>1 DEF Placed, AtNode, Move, Stay, GiveUp, Pass, Advance, Try, Pause, Succeed, Fail,
                  Busy, Resting, Quiet, Stages
  <1>. QED  BY <1>4, <1>5, <1>6

\* A run that has not loaded its file has nothing to account for.
LEMMA AccountInit == Init => AccountInv
  <1>. SUFFICES ASSUME Init PROVE AccountInv  OBVIOUS
  <1>1. \A q \in Runs : DOMAIN Nodes(q) = {}  BY DEF Init, Nodes
  <1>2. \A q \in Runs : local[q].status = "scored" /\ idx[q] = 1 /\ answer[q] = "pending"
    BY DEF Init, InitLocal
  <1>. QED  BY <1>1, <1>2, RetryInit DEF AccountInv, Settled, Tallied, Placed

\* Each move keeps the account.
LEMMA AccountStep == AccountInv /\ [Next]_vars => AccountInv'
  <1>. SUFFICES ASSUME AccountInv, [Next]_vars PROVE AccountInv'  OBVIOUS
  <1>1. RetryInv /\ RetryInv' /\ TypeInv /\ TypeInv'
    BY RetryStep DEF AccountInv, RetryInv
  <1>2. ASSUME NEW q \in Runs PROVE Settled(q)' /\ Tallied(q)' /\ Placed(q)'
    <2>1. Move(q) /\ Monotone(q) /\ Fresh(q) /\ Settled(q) /\ Tallied(q) /\ Placed(q)
      BY <1>1, EveryStepMoves, NothingTakenBack DEF AccountInv, RetryInv
    <2>2. CASE Read(q)  BY <1>1, <2>1, <2>2, ReadAccount
    <2>3. CASE ~Read(q)  BY <1>1, <2>1, <2>3, MoveAccount
    <2>. QED  BY <2>2, <2>3
  <1>. QED  BY <1>1, <1>2 DEF AccountInv

\* A run that has returned has left every node behind that applies to its tenant.
LEMMA ReturnedIsPast ==
  ASSUME AccountInv, NEW r \in Runs, answer[r] = "returned", NEW i \in DOMAIN Nodes(r),
         NEW s \in Stages, RunsIn(Nodes(r)[i], s, claim[r].tenant)
  PROVE  Behind(r, i)
  <1>1. TypeInv /\ stage[r] = "publishing" /\ ~AtNode(r)
    BY DEF AccountInv, RetryInv, Placed
  <1>2. i < idx[r]  BY <1>1, Indices
  <1>. QED  BY <1>1, <1>2 DEF Behind, Rank, Stages

\* A result accounts for every node of the file that was loaded, and its status adds
\* the failures up, for every DAG file and tenant and any number of runs (Run).
THEOREM AnswersAccount == Spec => []AnswerAccountsForEveryNode
  <1>1. AccountInv => AnswerAccountsForEveryNode
    <2>. SUFFICES ASSUME AccountInv, NEW r \in Runs, answer[r] = "returned"
                  PROVE  /\ \A i \in DOMAIN Nodes(r) :
                              (\E s \in Stages : RunsIn(Nodes(r)[i], s, claim[r].tenant)) =>
                                \/ outcome[r][i] = "ok"
                                \/ /\ outcome[r][i] = "handled"
                                   /\ Nodes(r)[i].onFailure \in {"skip", "degrade"}
                         /\ local[r].status = "degraded" <=>
                              \E i \in DOMAIN Nodes(r) :
                                outcome[r][i] = "handled" /\ Nodes(r)[i].service # "model-service"
      BY DEF AnswerAccountsForEveryNode
    <2>1. Settled(r) /\ Tallied(r)  BY DEF AccountInv
    <2>. QED  BY <2>1, ReturnedIsPast DEF Settled, Tallied
  <1>. QED  BY <1>1, AccountInit, AccountStep, PTL DEF Spec
-----------------------------------------------------------------------------
(* The events behind an answer.                                            *)

\* The event of a publish node that is done is on the topic, with the score of the
\* run, and with a status that was "scored" if the run's still is.
Sent(q) ==
  \A i \in DOMAIN Nodes(q) :
    /\ outcome[q][i] = "ok" /\ Nodes(q)[i].service = "kafka-publisher"
    /\ Nodes(q)[i].maxRetries >= 0
    => /\ stage[q] = "publishing"
       /\ \E m \in topic : /\ m.run = q /\ m.node = i /\ m.score = local[q].score
                           /\ local[q].status = "scored" => m.status = "scored"

SentInv == AccountInv /\ \A q \in Runs : Sent(q)

\* Every step keeps the events behind the nodes that are done.
LEMMA SentStep == SentInv /\ [Next]_vars => SentInv'
  <1>. SUFFICES ASSUME SentInv, [Next]_vars PROVE SentInv'  OBVIOUS
  <1>1. AccountInv' /\ TypeInv /\ TypeInv'
    BY AccountStep, TypeStep DEF SentInv, AccountInv, RetryInv
  <1>2. ASSUME NEW q \in Runs PROVE Sent(q)'
    <2>. DEFINE k == idx[q]
    <2>1. Move(q) /\ topic \subseteq topic' /\ Sent(q)
      BY <1>1, EveryStepMoves, NothingTakenBack DEF SentInv, Monotone
    <2>2. CASE Read(q)
      BY <1>1, <2>2, ReadHistories DEF Sent
    <2>3. CASE ~Read(q)
      <3>1. Nodes(q)' = Nodes(q)
        BY <2>1, <2>3 DEF Move, Stay, GiveUp, Pass, Advance, Try, Pause, Succeed, Fail,
                          Resting, Quiet, Busy, Nodes
      <3>. SUFFICES ASSUME NEW i \in DOMAIN Nodes(q), outcome'[q][i] = "ok",
                           Nodes(q)[i].service = "kafka-publisher", Nodes(q)[i].maxRetries >= 0
                    PROVE  /\ stage'[q] = "publishing"
                           /\ \E m \in topic' :
                                /\ m.run = q /\ m.node = i /\ m.score = local'[q].score
                                /\ local'[q].status = "scored" => m.status = "scored"
        BY <3>1 DEF Sent
      <3>2. SUFFICES /\ stage[q] = "publishing"
                     /\ \E m \in topic :
                          /\ m.run = q /\ m.node = i /\ m.score = local[q].score
                          /\ local[q].status = "scored" => m.status = "scored"
        <4>1. local[q].status \in {"scored", "degraded"}
          BY <1>1, Indices DEF Local
        <4>. QED  BY <1>1, <2>1, <3>2, <4>1, PublishingPersists
      <3>3. CASE outcome[q][i] = "ok"
        BY <2>1, <3>3 DEF Sent
      <3>4. CASE outcome[q][i] # "ok"
        <4>1. i = k /\ Busy(q)
          BY <1>1, <2>1, <2>3, <3>4, OtherNodes
        <4>2. Succeed(q)
          BY <1>1, <2>1, <2>3, <3>4, <4>1, Indices
             DEF Move, Stay, GiveUp, Pass, Advance, Try, Pause, Fail, Resting, Quiet
        <4>3. CurrentNode(q) = Nodes(q)[i] /\ CurrentNode(q).maxRetries \in Int
          BY <1>1, <4>1, Indices
        <4>4. Acknowledged(q)  BY <4>2, <4>3 DEF Succeed
        <4>5. Message(q, attempt[q], event[q]) \in topic
          BY <4>3, <4>4 DEF Acknowledged, Publishes
        <4>6. stage[q] = "publishing"
          BY <4>1, <4>3 DEF Busy, Runnable, RunsIn, Recognized, Stages
        <4>7. call[q] = "calling"  BY <4>2, <4>3 DEF Succeed
        <4>8. event[q] = EventOf(q)
          BY <1>1, <4>6, <4>7 DEF TypeInv, Shape
        <4>. QED  BY <4>1, <4>5, <4>6, <4>8 DEF Message, EventOf
      <3>. QED  BY <3>3, <3>4
    <2>. QED  BY <2>2, <2>3
  <1>. QED  BY <1>1, <1>2 DEF SentInv

\* "scored" means published: for every DAG file and any number of runs, the events
\* of all publish nodes are on the topic when a run answers "scored", and say so,
\* whatever was delayed, lost or sent again (Run with KafkaPublisher.Publish).
THEOREM ScoredIsPublished == Spec => []ScoredMeansPublished
  <1>1. Init => SentInv
    <2>. SUFFICES ASSUME Init PROVE SentInv  OBVIOUS
    <2>1. \A q \in Runs : DOMAIN Nodes(q) = {}  BY DEF Init, Nodes
    <2>. QED  BY <2>1, AccountInit DEF SentInv, Sent
  <1>2. SentInv => ScoredMeansPublished
    <2>. SUFFICES ASSUME SentInv, NEW r \in Runs, answer[r] = "returned",
                         local[r].status = "scored", NEW i \in DOMAIN Nodes(r),
                         RunsIn(Nodes(r)[i], "publishing", claim[r].tenant),
                         Nodes(r)[i].maxRetries >= 0
                  PROVE  \E m \in topic : /\ m.run = r /\ m.node = i
                                          /\ m.status = "scored" /\ m.score = local[r].score
      BY DEF ScoredMeansPublished
    <2>1. AccountInv /\ Settled(r) /\ Tallied(r) /\ Sent(r)
      BY DEF SentInv, AccountInv
    <2>2. Behind(r, i)  BY <2>1, ReturnedIsPast DEF Stages
    <2>3. Nodes(r)[i].service = "kafka-publisher"  BY DEF RunsIn, Recognized
    <2>4. outcome[r][i] # "handled"  BY <2>1, <2>3 DEF Tallied
    <2>5. outcome[r][i] = "ok"  BY <2>1, <2>2, <2>4 DEF Settled
    <2>. QED  BY <2>1, <2>3, <2>5 DEF Sent
  <1>. QED  BY <1>1, <1>2, SentStep, PTL DEF Spec
=============================================================================
