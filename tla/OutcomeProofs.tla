---------------------------- MODULE OutcomeProofs ----------------------------
(***************************************************************************)
(* The executor implements ClaimOutcome, for every set of runs, claims and *)
(* DAG files: the initial states are initial states of the abstract        *)
(* specification, and every step of a run, of the Kafka writer or of the   *)
(* environment is one of its steps or changes nothing it sees.  And a run  *)
(* that is cut off stays so, and never returns.                            *)
(***************************************************************************)
EXTENDS LedgerProofs

\* What ClaimOutcome sees of a run.
Verdict(q)  == IF stage[q] = "publishing" THEN local[q].score ELSE None
Degraded(q) == local[q].status = "degraded"
Reply(q)    == CASE answer[q] = "pending"  -> [kind |-> "pending"]
                 [] answer[q] = "failed"   -> [kind |-> "error"]
                 [] answer[q] = "returned" -> [kind   |-> "result",
                                               status |-> local[q].status,
                                               score  |-> local[q].score]

\* And of the topic.
Seen(m) == [request |-> m.run, status |-> m.status, score |-> m.score]

\* The run looks the same.
Unseen(q) == Verdict(q)' = Verdict(q) /\ Degraded(q)' = Degraded(q) /\ Reply(q)' = Reply(q)

\* A run that stays looks the same.
LEMMA StayUnseen ==
  ASSUME NEW q \in Runs, Stay(q)
  PROVE  Unseen(q)
  BY DEF Stay, Quiet, Unseen, Verdict, Degraded, Reply

\* One run moves at a time, and its steps leave the topic alone.
LEMMA OthersStay ==
  ASSUME TypeInv, NEW r \in Runs, RunStep(r) \/ ResolveVersion(r) \/ ResolveVersionFails(r)
  PROVE  topic' = topic /\ \A q \in Runs \ {r} : Stay(q)
  <1>. USE DEF TypeInv, TypeOK, env, history, kafka
  <1>1. CASE RunStep(r)
    BY <1>1 DEF Stay, Quiet, RunStep, ReadConfig, SkipNode, BeginCall, SkipAllAttempts,
                AttemptSucceeds, AttemptFails, LastAttemptFails, BackoffElapses,
                BackoffCancelled, EndEnrichment, EndScoring, ReturnResult,
                StartAttempt, NodeDone, NodeFailed
  <1>2. CASE ResolveVersion(r) \/ ResolveVersionFails(r)
    BY <1>2 DEF Stay, Quiet, ResolveVersion, ResolveVersionFails
  <1>. QED  BY <1>1, <1>2

\* What a move of a run looks like.
LEMMA MoveSeen ==
  ASSUME TypeInv, TypeInv', [Next]_vars, NEW r \in Runs, Move(r)
  PROVE  \/ Unseen(r)
         \/ /\ Reply(r) = [kind |-> "pending"] /\ Verdict(r) = None /\ Verdict(r)' \in Scores
            /\ Degraded(r)' = Degraded(r) /\ Reply(r)' = Reply(r)
         \/ /\ Reply(r) = [kind |-> "pending"] /\ Degraded(r)'
            /\ Verdict(r)' = Verdict(r) /\ Reply(r)' = Reply(r)
         \/ /\ Reply(r) = [kind |-> "pending"] /\ Verdict(r) # None
            /\ Reply(r)' = [kind |-> "result",
                            status |-> IF Degraded(r) THEN "degraded" ELSE "scored",
                            score |-> Verdict(r)]
            /\ Degraded(r)' = Degraded(r) /\ Verdict(r)' = Verdict(r)
         \/ /\ Reply(r) = [kind |-> "pending"] /\ Reply(r)' = [kind |-> "error"]
            /\ Degraded(r)' = Degraded(r) /\ Verdict(r)' = Verdict(r)
  <1>1. /\ stage[r] = "publishing" => local[r].score # None
        /\ stage'[r] = "publishing" => local'[r].score # None
        /\ local[r].status \in {"scored", "degraded"} /\ local'[r].score \in Scores \cup {None}
    BY DEF TypeInv, TypeOK, Shape, Local
  <1>2. stage[r] = "publishing" => stage'[r] = "publishing" /\ local'[r].score = local[r].score
    BY PublishingPersists
  <1>3. /\ answer[r] = "pending" => Reply(r) = [kind |-> "pending"]
        /\ answer'[r] = "pending" => Reply(r)' = [kind |-> "pending"]
        /\ answer'[r] = "failed" => Reply(r)' = [kind |-> "error"]
        /\ answer'[r] = "returned" => Reply(r)' = [kind |-> "result", status |-> local'[r].status,
                                                   score |-> local'[r].score]
    BY DEF Reply
  <1>stay. CASE Stay(r)  BY <1>stay, StayUnseen
  <1>giveup. CASE GiveUp(r)
    BY <1>3, <1>giveup DEF GiveUp, Resting, Quiet, Verdict, Degraded
  <1>quiet. CASE Pass(r) \/ Read(r) \/ Try(r) \/ Pause(r)
    <2>1. /\ answer[r] = "pending" /\ answer'[r] = "pending" /\ local'[r] = local[r]
          /\ stage'[r] = "publishing" <=> stage[r] = "publishing"
      BY <1>quiet DEF Pass, Read, Try, Pause, Busy, Resting, Quiet
    <2>. QED  BY <1>3, <2>1 DEF Unseen, Verdict, Degraded
  <1>advance. CASE Advance(r)
    <2>1. answer[r] = "pending" /\ local'[r] = local[r]
      BY <1>advance DEF Advance, Resting, Quiet
    <2>2. CASE stage[r] = "publishing"
      <3>1. answer'[r] = "returned" /\ stage'[r] = "publishing"
        BY <1>advance, <2>2 DEF Advance
      <3>. QED  BY <1>1, <1>3, <2>1, <2>2, <3>1 DEF Verdict, Degraded
    <2>3. CASE stage[r] # "publishing"
      <3>1. answer'[r] = "pending"  BY <1>advance, <2>3 DEF Advance
      <3>. QED  BY <1>1, <1>3, <2>1, <2>3, <3>1 DEF Unseen, Verdict, Degraded
    <2>. QED  BY <2>2, <2>3
  <1>done. CASE Succeed(r)
    <2>1. /\ answer[r] = "pending" /\ answer'[r] = "pending" /\ stage'[r] = stage[r]
          /\ local'[r].status = local[r].status
      BY <1>done DEF Succeed, Busy
    <2>. QED  BY <1>2, <1>3, <2>1 DEF Unseen, Verdict, Degraded
  <1>fail. CASE Fail(r)
    <2>1. answer[r] = "pending" /\ stage'[r] = stage[r]  BY <1>fail DEF Fail, Busy
    <2>2. CASE local'[r].status = StatusAfterFailure(r) /\ answer'[r] = answer[r]
      BY <1>2, <1>3, <2>1, <2>2 DEF Unseen, Verdict, Degraded, StatusAfterFailure
    <2>3. CASE local'[r] = local[r] /\ answer'[r] = "failed"
      BY <1>3, <2>1, <2>3 DEF Verdict, Degraded
    <2>. QED  BY <1>fail, <2>2, <2>3 DEF Fail
  <1>. QED  BY <1>stay, <1>giveup, <1>quiet, <1>advance, <1>done, <1>fail DEF Move

\* The abstract variables, as functions of what is seen of each run.
barVerdict  == [r \in Runs |-> Verdict(r)]
barDegraded == [r \in Runs |-> Degraded(r)]
barReply    == [r \in Runs |-> Reply(r)]
barEvents   == {Seen(m) : m \in topic}

\* The actions of the abstract specification in these terms.
barSettle(r, v) ==
  /\ barReply[r] = [kind |-> "pending"] /\ barVerdict[r] = None
  /\ barVerdict' = [barVerdict EXCEPT ![r] = v]
  /\ UNCHANGED <<barDegraded, barReply, barEvents>>

barDegrade(r) ==
  /\ barReply[r] = [kind |-> "pending"]
  /\ barDegraded' = [barDegraded EXCEPT ![r] = TRUE]
  /\ UNCHANGED <<barVerdict, barReply, barEvents>>

barEmit(r, s) ==
  /\ barVerdict[r] # None
  /\ s = "degraded" => barDegraded[r]
  /\ barEvents' = barEvents \cup {[request |-> r, status |-> s, score |-> barVerdict[r]]}
  /\ UNCHANGED <<barVerdict, barDegraded, barReply>>

barAnswer(r) ==
  /\ barReply[r] = [kind |-> "pending"] /\ barVerdict[r] # None
  /\ barReply' = [barReply EXCEPT ![r] =
                    [kind |-> "result",
                     status |-> IF barDegraded[r] THEN "degraded" ELSE "scored",
                     score |-> barVerdict[r]]]
  /\ UNCHANGED <<barVerdict, barDegraded, barEvents>>

barRefuse(r) ==
  /\ barReply[r] = [kind |-> "pending"]
  /\ barReply' = [barReply EXCEPT ![r] = [kind |-> "error"]]
  /\ UNCHANGED <<barVerdict, barDegraded, barEvents>>

\* They are its actions.
LEMMA AbstractActions ==
  ASSUME NEW r \in Runs,
         \/ \E v \in Scores : barSettle(r, v)
         \/ barDegrade(r)
         \/ \E s \in {"scored", "degraded"} : barEmit(r, s)
         \/ barAnswer(r)
         \/ barRefuse(r)
  PROVE  Outcome!Next
  <1>. USE DEF barVerdict, barDegraded, barReply, barEvents, Verdict, Degraded, Reply, Seen,
               Outcome!Pending, Outcome!Error, Outcome!Result, Outcome!Next
  <1>settle. ASSUME NEW v \in Scores, barSettle(r, v) PROVE Outcome!Settle(r, v)
    BY <1>settle, Zenon DEF barSettle, Outcome!Settle
  <1>degrade. CASE barDegrade(r)
    BY <1>degrade, Zenon DEF barDegrade, Outcome!Degrade
  <1>emit. ASSUME NEW s, barEmit(r, s) PROVE Outcome!Emit(r, s)
    BY <1>emit, Zenon DEF barEmit, Outcome!Emit
  <1>answer. CASE barAnswer(r)
    BY <1>answer, Zenon DEF barAnswer, Outcome!Answer
  <1>refuse. CASE barRefuse(r)
    BY <1>refuse, Zenon DEF barRefuse, Outcome!Refuse
  <1>. QED
    BY <1>settle, <1>degrade, <1>emit, <1>answer, <1>refuse, Zenon DEF Outcome!Statuses

\* A step that leaves what the mapping looks at is a stutter of ClaimOutcome.
LEMMA AbstractStutter ==
  ASSUME UNCHANGED <<barVerdict, barDegraded, barReply, barEvents>>
  PROVE  UNCHANGED Outcome!vars
  BY Zenon DEF barVerdict, barDegraded, barReply, barEvents, Verdict, Degraded, Reply, Seen,
               Outcome!vars

\* A step of one run is a step of the abstract specification, or a stutter.
LEMMA RunImplements ==
  ASSUME TypeInv, TypeInv', [Next]_vars, NEW r \in Runs,
         RunStep(r) \/ ResolveVersion(r) \/ ResolveVersionFails(r)
  PROVE  [Outcome!Next]_(Outcome!vars)
  <1>1. topic' = topic /\ \A q \in Runs \ {r} : Unseen(q)
    BY OthersStay, StayUnseen
  <1>2. barEvents' = barEvents  BY <1>1 DEF barEvents
  <1>3. /\ barVerdict' = [barVerdict EXCEPT ![r] = Verdict(r)']
        /\ barDegraded' = [barDegraded EXCEPT ![r] = Degraded(r)']
        /\ barReply' = [barReply EXCEPT ![r] = Reply(r)']
    <2>1. \A q \in Runs : q # r => /\ Verdict(q)' = Verdict(q) /\ Degraded(q)' = Degraded(q)
                                   /\ Reply(q)' = Reply(q)
      BY <1>1 DEF Unseen
    <2>2. /\ barVerdict' = [q \in Runs |-> Verdict(q)'] /\ barVerdict = [q \in Runs |-> Verdict(q)]
          /\ barDegraded' = [q \in Runs |-> Degraded(q)'] /\ barDegraded = [q \in Runs |-> Degraded(q)]
          /\ barReply' = [q \in Runs |-> Reply(q)'] /\ barReply = [q \in Runs |-> Reply(q)]
      BY DEF barVerdict, barDegraded, barReply
    <2>. QED  BY <2>1, <2>2
  <1>4. /\ barVerdict[r] = Verdict(r) /\ barDegraded[r] = Degraded(r) /\ barReply[r] = Reply(r)
        /\ barVerdict = [barVerdict EXCEPT ![r] = Verdict(r)]
        /\ barDegraded = [barDegraded EXCEPT ![r] = Degraded(r)]
        /\ barReply = [barReply EXCEPT ![r] = Reply(r)]
    BY DEF barVerdict, barDegraded, barReply
  <1>5. Move(r)  BY EveryStepMoves
  <1>6. \/ UNCHANGED <<barVerdict, barDegraded, barReply, barEvents>>
        \/ \E v \in Scores : barSettle(r, v)
        \/ barDegrade(r)
        \/ barAnswer(r)
        \/ barRefuse(r)
    <2>1. \/ Unseen(r)
          \/ /\ Reply(r) = [kind |-> "pending"] /\ Verdict(r) = None /\ Verdict(r)' \in Scores
             /\ Degraded(r)' = Degraded(r) /\ Reply(r)' = Reply(r)
          \/ /\ Reply(r) = [kind |-> "pending"] /\ Degraded(r)' = TRUE
             /\ Verdict(r)' = Verdict(r) /\ Reply(r)' = Reply(r)
          \/ /\ Reply(r) = [kind |-> "pending"] /\ Verdict(r) # None
             /\ Reply(r)' = [kind |-> "result",
                             status |-> IF Degraded(r) THEN "degraded" ELSE "scored",
                             score |-> Verdict(r)]
             /\ Degraded(r)' = Degraded(r) /\ Verdict(r)' = Verdict(r)
          \/ /\ Reply(r) = [kind |-> "pending"] /\ Reply(r)' = [kind |-> "error"]
             /\ Degraded(r)' = Degraded(r) /\ Verdict(r)' = Verdict(r)
      BY <1>5, MoveSeen DEF Degraded
    <2>. QED
      BY <1>2, <1>3, <1>4, <2>1, Zenon
         DEF barSettle, barDegrade, barAnswer, barRefuse, Unseen
  <1>. QED  BY <1>6, AbstractActions, AbstractStutter

\* So is the delivery of an event.
LEMMA DeliveryImplements ==
  ASSUME EventInv, NEW m \in inflight, Deliver(m)
  PROVE  [Outcome!Next]_(Outcome!vars)
  <1>1. /\ topic' = topic \cup {m}
        /\ UNCHANGED <<stage, answer, local>>
    BY DEF Deliver
  <1>2. /\ m.run \in Runs /\ m.status \in {"scored", "degraded"} /\ m.score \in Scores
        /\ Verdict(m.run) = m.score /\ (m.status = "degraded" => Degraded(m.run))
    BY DEF EventInv, EventsAgreeWithAnswer, TypeInv, TypeOK, Event, Verdict, Degraded
  <1>3. UNCHANGED <<barVerdict, barDegraded, barReply>>
    BY <1>1 DEF barVerdict, barDegraded, barReply, Verdict, Degraded, Reply
  <1>4. barEvents' = barEvents \cup {Seen(m)}
    BY <1>1, Zenon DEF barEvents
  <1>5. barVerdict[m.run] = m.score /\ barDegraded[m.run] = Degraded(m.run)
    BY <1>2 DEF barVerdict, barDegraded
  <1>6. barEmit(m.run, m.status)
    BY <1>2, <1>3, <1>4, <1>5, NoneAssumption DEF barEmit, Seen
  <1>. QED  BY <1>2, <1>6, AbstractActions

\* Every step is.
LEMMA StepImplements ==
  ASSUME EventInv, TypeInv', [Next]_vars
  PROVE  [Outcome!Next]_(Outcome!vars)
  <1>1. TypeInv  BY DEF EventInv
  <1>2. ASSUME UNCHANGED <<stage, answer, local, topic>> PROVE [Outcome!Next]_(Outcome!vars)
    <2>1. UNCHANGED <<barVerdict, barDegraded, barReply>>
      BY <1>2 DEF barVerdict, barDegraded, barReply, Verdict, Degraded, Reply
    <2>2. UNCHANGED barEvents  BY <1>2 DEF barEvents
    <2>. QED  BY <2>1, <2>2, AbstractStutter
  <1>run. ASSUME NEW r \in Runs, RunStep(r) \/ ResolveVersion(r) \/ ResolveVersionFails(r)
          PROVE  [Outcome!Next]_(Outcome!vars)
    BY <1>1, <1>run, RunImplements
  <1>cancel. ASSUME NEW r \in Runs, CancelContext(r) PROVE [Outcome!Next]_(Outcome!vars)
    BY <1>2, <1>cancel DEF CancelContext, kafka
  <1>deliver. ASSUME NEW m \in inflight, Deliver(m) PROVE [Outcome!Next]_(Outcome!vars)
    BY <1>deliver, DeliveryImplements
  <1>lose. ASSUME NEW m \in inflight, Lose(m) PROVE [Outcome!Next]_(Outcome!vars)
    BY <1>2, <1>lose DEF Lose
  <1>edit. ASSUME NEW p, NEW f, EditConfig(p, f) PROVE [Outcome!Next]_(Outcome!vars)
    BY <1>2, <1>edit DEF EditConfig, kafka
  <1>same. CASE UNCHANGED vars  BY <1>2, <1>same DEF vars
  <1>. QED  BY <1>run, <1>cancel, <1>deliver, <1>lose, <1>edit, <1>same DEF Next

\* The executor keeps the promise of the orchestration service: one verdict, one
\* answer, and events that agree with both, for every DAG file, any number of
\* interleaved runs and any behaviour of the Kafka writer (Run with Publish).
THEOREM ExecutorImplements == Spec => ImplementsClaimOutcome
  <1>1. Init => Outcome!Init
    <2>. SUFFICES ASSUME Init PROVE Outcome!Init  OBVIOUS
    <2>1. \A r \in Runs : stage[r] = "version" /\ answer[r] = "pending" /\ local[r].status = "scored"
      BY DEF Init, InitLocal
    <2>2. \A r \in Runs : /\ Verdict(r) = None /\ Degraded(r) = FALSE
                          /\ Reply(r) = [kind |-> "pending"]
      BY <2>1 DEF Verdict, Degraded, Reply
    <2>3. /\ barVerdict = [r \in Runs |-> None] /\ barDegraded = [r \in Runs |-> FALSE]
          /\ barReply = [r \in Runs |-> [kind |-> "pending"]]
      BY <2>2 DEF barVerdict, barDegraded, barReply
    <2>4. barEvents = {}  BY DEF Init, barEvents
    <2>. QED
      BY <2>3, <2>4, Zenon
         DEF barVerdict, barDegraded, barReply, barEvents, Verdict, Degraded, Reply, Seen,
             Outcome!Init, Outcome!Pending
  <1>2. Init => EventInv
    BY TypeInit DEF EventInv, EventsAgreeWithAnswer, Init
  <1>3. EventInv /\ [Next]_vars => [Outcome!Next]_(Outcome!vars)
    BY EventStep, StepImplements DEF EventInv
  <1>. QED
    BY <1>1, <1>2, <1>3, EventStep, PTL DEF Spec, ImplementsClaimOutcome, Outcome!Spec
-----------------------------------------------------------------------------
(* Runs that are cut off.                                                  *)

\* A run that is cut off stays cut off: no attempt under a finished context can
\* answer, and a nil response is no score.
LEMMA CutOffStays ==
  ASSUME TypeInv, [Next]_vars, NEW r \in Runs, CutOff(r)
  PROVE  CutOff(r)'
  <1>. USE DEF TypeInv, TypeOK, env, history, kafka
  <1>1. ctxDone[r] /\ ctxDone'[r] /\ call[r] # "calling" /\ local[r].score = None
        /\ local[r] \in Local
    BY NothingTakenBack DEF CutOff, Monotone
  <1>2. SUFFICES call'[r] # "calling" /\ local'[r].score = None
    BY <1>1 DEF CutOff
  <1>3. ASSUME Stay(r) PROVE call'[r] # "calling" /\ local'[r].score = None
    BY <1>1, <1>3 DEF Stay, Quiet
  <1>try. CASE BeginCall(r) \/ BackoffElapses(r)
    BY <1>1, <1>try DEF BeginCall, BackoffElapses, StartAttempt, AttemptContext
  <1>nil. CASE SkipAllAttempts(r)
    <2>1. CurrentNode(r).service \in Services
      BY <1>nil DEF SkipAllAttempts, In, Runnable, RunsIn, Recognized, Stages, Services
    <2>2. AbsorbNil(local[r], CurrentNode(r).service).score = None
      BY <1>1, <2>1 DEF AbsorbNil, Services, Local
    <2>. QED  BY <1>nil, <2>2 DEF SkipAllAttempts, NodeDone
  <1>fail. CASE LastAttemptFails(r) \/ BackoffCancelled(r)
    <2>1. NodeFailed(r)  BY <1>fail DEF LastAttemptFails, BackoffCancelled
    <2>2. CASE NodeFailureHandled(CurrentNode(r))
      <3>1. local' = [local EXCEPT ![r].status = StatusAfterFailure(r)] /\ call'[r] = "none"
        BY <2>1, <2>2 DEF NodeFailed
      <3>. QED  BY <1>1, <3>1 DEF Local
    <2>3. CASE ~NodeFailureHandled(CurrentNode(r))
      BY <1>1, <2>1, <2>3 DEF NodeFailed
    <2>. QED  BY <2>2, <2>3
  <1>never. CASE AttemptSucceeds(r)
    BY <1>1, <1>never DEF AttemptSucceeds, In
  <1>rest. CASE \/ ReadConfig(r) \/ SkipNode(r) \/ AttemptFails(r) \/ EndEnrichment(r)
                \/ EndScoring(r) \/ ReturnResult(r) \/ ResolveVersion(r) \/ ResolveVersionFails(r)
    BY <1>1, <1>rest DEF ReadConfig, SkipNode, AttemptFails, EndEnrichment, EndScoring,
                         ReturnResult, ResolveVersion, ResolveVersionFails
  <1>other. ASSUME NEW q \in Runs \ {r}, RunStep(q) \/ ResolveVersion(q) \/ ResolveVersionFails(q)
            PROVE  Stay(r)
    BY <1>other, OthersStay
  <1>env. ASSUME UNCHANGED <<call, local>> PROVE call'[r] # "calling" /\ local'[r].score = None
    BY <1>1, <1>env
  <1>cancel. ASSUME NEW q, CancelContext(q) PROVE UNCHANGED <<call, local>>
    BY <1>cancel DEF CancelContext
  <1>writer. ASSUME NEW m, Deliver(m) \/ Lose(m) PROVE UNCHANGED <<call, local>>
    BY <1>writer DEF Deliver, Lose
  <1>edit. ASSUME NEW p, NEW f, EditConfig(p, f) PROVE UNCHANGED <<call, local>>
    BY <1>edit DEF EditConfig
  <1>run. ASSUME NEW q \in Runs, RunStep(q) \/ ResolveVersion(q) \/ ResolveVersionFails(q)
          PROVE  call'[r] # "calling" /\ local'[r].score = None
    <2>1. CASE q = r
      BY <1>run, <2>1, <1>try, <1>nil, <1>fail, <1>never, <1>rest DEF RunStep
    <2>2. CASE q # r  BY <1>run, <2>2, <1>other, <1>3
    <2>. QED  BY <2>1, <2>2
  <1>same. CASE UNCHANGED vars  BY <1>same, <1>env DEF vars
  <1>. QED  BY <1>run, <1>env, <1>cancel, <1>writer, <1>edit, <1>same DEF Next

\* A run whose context ended before it had a score never returns a result, then or
\* later, whatever its retries and failure policies, for every DAG file (Run with
\* callWithResilience).
THEOREM CutOffIsFinal == Spec => CutOffRunsNeverReturn
  <1>1. AccountInv => TypeInv  BY DEF AccountInv, RetryInv
  <1>2. ASSUME NEW r \in Runs PROVE Spec => [](CutOff(r) => [](answer[r] # "returned"))
    <2>1. AccountInv /\ CutOff(r) => answer[r] # "returned"
      BY DEF AccountInv, RetryInv, Placed, TypeInv, Shape, CutOff
    <2>2. AccountInv /\ [Next]_vars /\ CutOff(r) => CutOff(r)'
      BY <1>1, CutOffStays
    <2>. QED  BY <2>1, <2>2, AccountInit, AccountStep, PTL DEF Spec
  <1>. QED  BY <1>2 DEF CutOffRunsNeverReturn
=============================================================================
