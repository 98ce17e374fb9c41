---------------------------- MODULE StartupProofs ----------------------------
(***************************************************************************)
(* For any deployment, any order of launches and any behaviour of the      *)
(* connections: a process serves only when its connections are warm, and   *)
(* its steps are those of ServiceLifecycle.                                *)
(***************************************************************************)
EXTENDS Startup, SequenceTheorems, TLAPS

ConnStates == {"closed", "idle", "connecting", "ready", "transientFailure"}

Typed ==
  /\ proc \in [Services -> {"down", "starting", "serving"}]
  /\ at \in [Services -> Nat \ {0}]
  /\ warmUp \in [Services -> {"dial", "check", "wait"}]
  /\ timer \in [Services -> {"off", "running", "expired"}]
  /\ conn \in [Channels -> ConnStates]
  /\ warmed \in [Services -> SUBSET Nat]
  /\ \A s \in Services : at[s] <= Len(Dials[s]) + 1

\* A dial that main is past is warm; so is one whose connection is ready, and
\* the one under way once its timer has run out.
Warm ==
  /\ \A s \in Services : \A i \in 1 .. (at[s] - 1) : i \in warmed[s]
  /\ \A c \in Channels : conn[c] = "ready" => c[2] \in warmed[c[1]]
  /\ \A s \in Services : timer[s] = "expired" => at[s] \in warmed[s]

IInv == Typed /\ Warm /\ WarmBeforeServing

\* The dials of a service are numbered from 1.
LEMMA DialDomain ==
  ASSUME NEW s \in Services
  PROVE  /\ Len(Dials[s]) \in Nat
         /\ DOMAIN Dials[s] = 1 .. Len(Dials[s])
  <1>1. Dials[s] \in Seq(Services)  BY DialsAssumption
  <1>. QED  BY <1>1, LenProperties

\* A channel is a service and the index of one of its dials.
LEMMA ChannelParts ==
  ASSUME NEW c \in Channels
  PROVE  /\ c[1] \in Services /\ c[2] \in DOMAIN Dials[c[1]] /\ c[2] \in Nat
         /\ c = <<c[1], c[2]>>
  <1>1. PICK s \in Services : c \in {<<s, i>> : i \in DOMAIN Dials[s]}  BY DEF Channels
  <1>2. PICK i \in DOMAIN Dials[s] : c = <<s, i>>  BY <1>1
  <1>3. c[1] = s /\ c[2] = i  BY <1>2
  <1>4. i \in Nat  BY DialDomain
  <1>. QED  BY <1>2, <1>3, <1>4

\* It holds while every process is down.
LEMMA InitHolds == Init => IInv
  <1>. SUFFICES ASSUME Init PROVE IInv  OBVIOUS
  <1>1. Typed  BY DialDomain DEF Init, Typed, ConnStates
  <1>2. Warm  BY ChannelParts DEF Init, Warm
  <1>3. WarmBeforeServing  BY DEF Init, WarmBeforeServing
  <1>. QED  BY <1>1, <1>2, <1>3 DEF IInv

\* The end of a process only takes away what the others do not have.
LEMMA GoneKeeps ==
  ASSUME IInv, NEW s \in Services, Gone(s)
  PROVE  IInv'
  <1>1. Typed'  BY DialDomain DEF IInv, Typed, Gone, ConnStates
  <1>2. \A x \in Services : x # s => /\ proc'[x] = proc[x] /\ at'[x] = at[x]
                                     /\ timer'[x] = timer[x] /\ warmed'[x] = warmed[x]
    BY DEF IInv, Typed, Gone
  <1>3. proc'[s] = "down" /\ at'[s] = 1 /\ timer'[s] = "off"  BY DEF IInv, Typed, Gone
  <1>4. \A c \in Channels : conn'[c] = "ready" => c[1] # s /\ conn[c] = "ready"
    BY DEF Gone
  <1>5. Warm'
    <2>1. \A x \in Services : \A i \in 1 .. (at'[x] - 1) : i \in warmed'[x]
      BY <1>2, <1>3 DEF IInv, Warm
    <2>2. \A c \in Channels : conn'[c] = "ready" => c[2] \in warmed'[c[1]]
      BY <1>2, <1>4, ChannelParts DEF IInv, Warm
    <2>3. \A x \in Services : timer'[x] = "expired" => at'[x] \in warmed'[x]
      BY <1>2, <1>3 DEF IInv, Warm
    <2>. QED  BY <2>1, <2>2, <2>3 DEF Warm
  <1>6. WarmBeforeServing'  BY <1>2, <1>3 DEF IInv, WarmBeforeServing
  <1>. QED  BY <1>1, <1>5, <1>6 DEF IInv

\* WarmUp returns only for a dial that is warm.
LEMMA ReturnKeeps ==
  ASSUME IInv, NEW s \in Services, Dialling(s), at[s] \in warmed[s], Return(s)
  PROVE  IInv'
  <1>1. at[s] \in 1 .. Len(Dials[s])  BY DialDomain DEF Dialling
  <1>2. /\ at'[s] = at[s] + 1 /\ \A x \in Services : x # s => at'[x] = at[x]
        /\ timer'[s] = "off" /\ \A x \in Services : x # s => timer'[x] = timer[x]
        /\ UNCHANGED <<proc, conn, warmed>>
    BY DEF IInv, Typed, Return
  <1>3. Typed'
    <2>1. at[s] + 1 \in Nat \ {0} /\ at[s] + 1 <= Len(Dials[s]) + 1  BY <1>1, DialDomain
    <2>. QED  BY <1>2, <2>1 DEF IInv, Typed, Return
  <1>4. Warm'
    <2>1. \A x \in Services : \A i \in 1 .. (at'[x] - 1) : i \in warmed[x]
      <3>. SUFFICES ASSUME NEW x \in Services, NEW i \in 1 .. (at'[x] - 1)
                   PROVE  i \in warmed[x]
        OBVIOUS
      <3>1. at[x] \in Nat  BY DEF IInv, Typed
      <3>2. i \in 1 .. (at[x] - 1) \/ (x = s /\ i = at[s])  BY <1>2, <3>1
      <3>. QED  BY <3>2 DEF IInv, Warm
    <2>. QED  BY <1>2, <2>1 DEF IInv, Warm
  <1>5. WarmBeforeServing'  BY <1>2 DEF IInv, WarmBeforeServing
  <1>. QED  BY <1>3, <1>4, <1>5 DEF IInv

\* A channel moves, and is counted as warm when it becomes ready.
LEMMA ChannelKeeps ==
  ASSUME IInv, NEW c \in Channels, NEW to \in ConnStates, ConnMoves(c, to),
         \/ to # "ready" /\ UNCHANGED warmed
         \/ warmed' = [warmed EXCEPT ![c[1]] = @ \cup {c[2]}]
  PROVE  IInv'
  <1>1. c[1] \in Services /\ c[2] \in Nat /\ c = <<c[1], c[2]>>  BY ChannelParts
  <1>2. /\ \A x \in Services : warmed[x] \subseteq warmed'[x]
        /\ to = "ready" => c[2] \in warmed'[c[1]]
        /\ warmed' \in [Services -> SUBSET Nat]
    <2>1. CASE to # "ready" /\ UNCHANGED warmed  BY <2>1 DEF IInv, Typed
    <2>2. CASE warmed' = [warmed EXCEPT ![c[1]] = @ \cup {c[2]}]
      <3>1. warmed \in [Services -> SUBSET Nat]  BY DEF IInv, Typed
      <3>2. /\ warmed'[c[1]] = warmed[c[1]] \cup {c[2]}
            /\ \A x \in Services : x # c[1] => warmed'[x] = warmed[x]
        BY <1>1, <2>2, <3>1
      <3>3. warmed' \in [Services -> SUBSET Nat]  BY <1>1, <2>2, <3>1
      <3>. QED  BY <3>1, <3>2, <3>3
    <2>. QED  BY <2>1, <2>2
  <1>3. /\ conn' \in [Channels -> ConnStates]
        /\ \A d \in Channels : conn'[d] = "ready" => (d = c /\ to = "ready") \/ conn[d] = "ready"
        /\ UNCHANGED <<proc, at, warmUp, timer>>
    BY DEF IInv, Typed, ConnMoves
  <1>4. Typed'  BY <1>2, <1>3 DEF IInv, Typed
  <1>5. Warm'
    <2>1. \A d \in Channels : conn'[d] = "ready" => d[2] \in warmed'[d[1]]
      BY <1>2, <1>3, ChannelParts DEF IInv, Warm
    <2>. QED  BY <1>2, <1>3, <2>1 DEF IInv, Warm
  <1>6. WarmBeforeServing'  BY <1>2, <1>3 DEF IInv, WarmBeforeServing
  <1>. QED  BY <1>4, <1>5, <1>6 DEF IInv

\* Listening after the last dial.
LEMMA ListenKeeps ==
  ASSUME IInv, NEW s \in Services, Listen(s)
  PROVE  IInv'
  <1>1. DOMAIN Dials[s] \subseteq warmed[s]
    <2>1. at[s] \in Nat \ {0} /\ at[s] <= Len(Dials[s]) + 1  BY DEF IInv, Typed
    <2>2. at[s] = Len(Dials[s]) + 1  BY <2>1, DialDomain DEF Listen, Dialled
    <2>. QED  BY <2>2, DialDomain DEF IInv, Warm
  <1>2. /\ \A x \in Services : proc'[x] = "serving" => x = s \/ proc[x] = "serving"
        /\ proc' \in [Services -> {"down", "starting", "serving"}]
        /\ UNCHANGED <<at, warmUp, timer, conn, warmed>>
    BY DEF IInv, Typed, Listen
  <1>3. Typed' /\ Warm'  BY <1>2 DEF IInv, Typed, Warm
  <1>4. WarmBeforeServing'  BY <1>1, <1>2 DEF IInv, WarmBeforeServing
  <1>. QED  BY <1>3, <1>4 DEF IInv

\* main and WarmUp of one service, the returns of WarmUp among them.
LEMMA ServiceKeeps ==
  ASSUME IInv, NEW s \in Services,
         \/ Launch(s) \/ MainStep(s) \/ ServeFails(s)
         \/ Interrupt(s) \/ TimesOut(s) \/ TimerExpires(s)
  PROVE  IInv'
  <1>. USE DEF IInv
  <1>launch. CASE Launch(s)
    <2>1. /\ \A x \in Services : proc'[x] = "serving" => proc[x] = "serving"
          /\ proc' \in [Services -> {"down", "starting", "serving"}]
      BY <1>launch DEF Typed, Launch
    <2>. QED  BY <1>launch, <2>1 DEF Launch, Typed, Warm, WarmBeforeServing
  <1>gone. CASE Interrupt(s) \/ StartFails(s) \/ ServeFails(s)
    BY <1>gone, GoneKeeps DEF Interrupt, StartFails, ServeFails
  <1>connect. CASE Connect(s)
    <2>1. /\ conn' \in [Channels -> ConnStates]
          /\ \A c \in Channels : conn'[c] = "ready" => conn[c] = "ready"
          /\ timer' \in [Services -> {"off", "running", "expired"}]
          /\ \A x \in Services : timer'[x] = "expired" => timer[x] = "expired"
          /\ warmUp' \in [Services -> {"dial", "check", "wait"}]
          /\ UNCHANGED <<proc, at, warmed>>
      BY <1>connect DEF Typed, Connect, ConnStates
    <2>. QED  BY <2>1 DEF Typed, Warm, WarmBeforeServing
  <1>ready. CASE CheckReady(s)
    <2>1. Channel(s) \in Channels /\ Channel(s)[1] = s /\ Channel(s)[2] = at[s]
      BY <1>ready DEF CheckReady, Dialling, Channel, Channels
    <2>2. at[s] \in warmed[s]  BY <1>ready, <2>1 DEF CheckReady, Warm
    <2>. QED  BY <1>ready, <2>2, ReturnKeeps DEF CheckReady
  <1>wait. CASE CheckNotReady(s) \/ StateChanges(s)
    <2>1. warmUp' \in [Services -> {"dial", "check", "wait"}]
          /\ UNCHANGED <<proc, at, timer, conn, warmed>>
      BY <1>wait DEF CheckNotReady, StateChanges, Typed
    <2>. QED  BY <2>1 DEF Typed, Warm, WarmBeforeServing
  <1>listen. CASE Listen(s)  BY <1>listen, ListenKeeps
  <1>times. CASE TimesOut(s)
    BY <1>times, ReturnKeeps DEF TimesOut, Warm
  <1>expires. CASE TimerExpires(s)
    <2>1. /\ \A x \in Services : warmed[x] \subseteq warmed'[x]
          /\ at[s] \in warmed'[s]
          /\ warmed' \in [Services -> SUBSET Nat]
          /\ timer' \in [Services -> {"off", "running", "expired"}]
          /\ \A x \in Services : timer'[x] = "expired" => x = s \/ timer[x] = "expired"
          /\ UNCHANGED <<proc, at, warmUp, conn>>
      BY <1>expires DEF Typed, TimerExpires
    <2>2. Warm'  BY <2>1, ChannelParts DEF Warm
    <2>. QED  BY <2>1, <2>2 DEF Typed, WarmBeforeServing
  <1>. QED
    BY <1>launch, <1>gone, <1>connect, <1>ready, <1>wait, <1>listen, <1>times, <1>expires
    DEF MainStep

\* Every step keeps it.
LEMMA StepKeeps == IInv /\ [Next]_vars => IInv'
  <1>. SUFFICES ASSUME IInv, [Next]_vars PROVE IInv'  OBVIOUS
  <1>service. ASSUME NEW s \in Services,
                     \/ Launch(s) \/ MainStep(s) \/ ServeFails(s)
                     \/ Interrupt(s) \/ TimesOut(s) \/ TimerExpires(s)
              PROVE  IInv'
    BY <1>service, ServiceKeeps
  <1>channel. ASSUME NEW c \in Channels,
                     \/ Handshake(c) \/ Refused(c) \/ BackoffEnds(c) \/ Dropped(c) \/ Call(c)
              PROVE  IInv'
    BY <1>channel, ChannelKeeps
    DEF Handshake, Refused, BackoffEnds, Dropped, Call, ConnStates
  <1>same. CASE Batch \/ Flush \/ vars' = vars
    BY <1>same DEF Batch, Flush, WriterMoves, vars, IInv, Typed, Warm, WarmBeforeServing
  <1>. QED  BY <1>service, <1>channel, <1>same DEF Next

\* Whatever the deployment, the order of the launches and the state of the
\* network: traffic is taken only on connections that were ready or had their
\* full window (telemetry.WarmUp in main).
THEOREM ServesWarm == Spec => []WarmBeforeServing
  <1>1. IInv => WarmBeforeServing  BY DEF IInv
  <1>. QED  BY InitHolds, StepKeeps, <1>1, PTL DEF Spec

\* Every step of a service is a step of ServiceLifecycle or leaves its phase.
LEMMA LifecycleStep == IInv /\ [Next]_vars => [Lifecycle!Next]_proc
  <1>. SUFFICES ASSUME IInv, [Next]_vars, proc' # proc PROVE Lifecycle!Next
    OBVIOUS
  <1>. USE DEF Lifecycle!Next, Lifecycle!Launch, Lifecycle!Settle, Lifecycle!Exit
  <1>1. PICK s \in Services : \/ Launch(s) \/ Listen(s)
                             \/ Interrupt(s) \/ StartFails(s) \/ ServeFails(s)
    BY DEF Next, MainStep, vars, Connect, CheckReady, CheckNotReady, StateChanges,
           TimesOut, TimerExpires, Return, Handshake, Refused, BackoffEnds, Dropped,
           Call, ConnMoves, Batch, Flush, WriterMoves
  <1>2. proc[s] \in {"down", "starting", "serving"}  BY DEF IInv, Typed
  <1>launch. CASE Launch(s)  BY <1>launch DEF Launch
  <1>listen. CASE Listen(s)  BY <1>listen DEF Listen, Dialled
  <1>gone. CASE Interrupt(s) \/ StartFails(s) \/ ServeFails(s)
    <2>1. proc' = [proc EXCEPT ![s] = "down"] /\ proc[s] # "down"
      BY <1>gone DEF Interrupt, StartFails, ServeFails, Gone, Dialling, Dialled
    <2>. QED  BY <1>2, <2>1
  <1>. QED  BY <1>1, <1>launch, <1>listen, <1>gone

\* The safety part of ServiceLifecycle: a process is launched only when it is
\* down, serves only after starting, and never goes back to starting (main).
THEOREM LifecycleSimulated == Spec => Lifecycle!Init /\ [][Lifecycle!Next]_proc
  <1>1. Init => Lifecycle!Init  BY DEF Init, Lifecycle!Init
  <1>. QED  BY <1>1, InitHolds, StepKeeps, LifecycleStep, PTL DEF Spec
=============================================================================
