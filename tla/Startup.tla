------------------------------- MODULE Startup -------------------------------
(***************************************************************************)
(* How the seven processes of the platform come up and go down: main of    *)
(* every service, the Dial functions of the client packages, and           *)
(* telemetry.WarmUp, which each of them calls for its connection.          *)
(*                                                                         *)
(* A process dials the services it depends on one after the other, waits   *)
(* for each connection up to five seconds, and then listens.  Processes    *)
(* are launched, interrupted and fail in any order.  A gRPC channel moves  *)
(* between its connectivity states by itself; only Connect or a call       *)
(* moves it out of IDLE.                                                   *)
(***************************************************************************)
EXTENDS Naturals, Sequences

\* The service each Dial function of the client packages connects to.
DialTenantConfig   == "tenant-config-svc"
DialAddressNorm    == "address-normalization-svc"
DialClaimantIDHash == "claimant-id-hashing-svc"
DialPolicyLookup   == "policy-lookup-svc"
DialModel          == "model-service"
DialOrchestration  == "orchestration-service"

\* What main of each service dials, in this order.
OrchestrationDials == <<DialTenantConfig, DialAddressNorm, DialClaimantIDHash,
                        DialPolicyLookup, DialModel>>

GatewayDials == <<DialTenantConfig, DialOrchestration>>

DialOrder(s) ==
  CASE s = DialOrchestration -> OrchestrationDials
    [] s = "claims-gateway"  -> GatewayDials
    [] OTHER                 -> <<>>

CONSTANTS
  Services,    \* the processes of this deployment
  Dials        \* service -> the services its main dials, in order

ASSUME DialsAssumption == Dials \in [Services -> Seq(Services)]

Channels == UNION {{<<s, i>> : i \in DOMAIN Dials[s]} : s \in Services}

VARIABLES
  proc,    \* service -> its phase of life
  at,      \* service -> the Dial call main is at
  warmUp,  \* service -> where WarmUp is: "dial" before it, "check" at GetState,
           \* "wait" in WaitForStateChange
  seen,    \* service -> the state GetState returned
  timer,   \* service -> the context with the warm-up timeout
  conn,    \* channel -> its connectivity state
  warmed,  \* service -> the dials whose connection was ready or whose window
           \* ran out (kept for the properties)
  unsent   \* the Kafka writer of the orchestration service holds a message

vars == <<proc, at, warmUp, seen, timer, conn, warmed, unsent>>

Init ==
  /\ proc = [s \in Services |-> "down"]
  /\ at = [s \in Services |-> 1]
  /\ warmUp = [s \in Services |-> "dial"]
  /\ seen = [s \in Services |-> "closed"]
  /\ timer = [s \in Services |-> "off"]
  /\ conn = [c \in Channels |-> "closed"]
  /\ warmed = [s \in Services |-> {}]
  /\ unsent = FALSE
-----------------------------------------------------------------------------
(* main.                                                                   *)

Launch(s) ==
  /\ proc[s] = "down"
  /\ proc' = [proc EXCEPT ![s] = "starting"]
  /\ UNCHANGED <<at, warmUp, seen, timer, conn, warmed, unsent>>

\* The process ends without its deferred Close calls: Serve blocks until the
\* process is stopped, and neither log.Fatalf nor a signal runs them.  The kernel
\* closes the connections; what the Kafka writer still holds is gone.
Gone(s) ==
  /\ proc' = [proc EXCEPT ![s] = "down"]
  /\ at' = [at EXCEPT ![s] = 1]
  /\ warmUp' = [warmUp EXCEPT ![s] = "dial"]
  /\ seen' = [seen EXCEPT ![s] = "closed"]
  /\ timer' = [timer EXCEPT ![s] = "off"]
  /\ conn' = [c \in Channels |-> IF c[1] = s THEN "closed" ELSE conn[c]]
  /\ warmed' = [warmed EXCEPT ![s] = {}]
  /\ unsent' = (unsent /\ s # DialOrchestration)

Dialling(s) == proc[s] = "starting" /\ at[s] \in DOMAIN Dials[s]

Dialled(s) == proc[s] = "starting" /\ at[s] \notin DOMAIN Dials[s]

\* The channel being warmed up.
Channel(s) == <<s, at[s]>>

Listen(s) ==
  /\ Dialled(s)
  /\ proc' = [proc EXCEPT ![s] = "serving"]
  /\ UNCHANGED <<at, warmUp, seen, timer, conn, warmed, unsent>>

\* log.Fatalf during start-up: a malformed target, the port is taken, the tenants
\* file is broken.
StartFails(s) ==
  /\ \/ Dialling(s) /\ warmUp[s] = "dial"
     \/ Dialled(s)
  /\ Gone(s)

\* log.Fatalf because Serve fails, which it need never do.
ServeFails(s) == proc[s] = "serving" /\ Gone(s)

\* A signal: Ctrl+C, or Stop-Process.
Interrupt(s) == proc[s] # "down" /\ Gone(s)
-----------------------------------------------------------------------------
(* WarmUp.                                                                 *)

\* NewClient, conn.Connect and context.WithTimeout.
Connect(s) ==
  /\ Dialling(s) /\ warmUp[s] = "dial"
  /\ conn' = [conn EXCEPT ![Channel(s)] = "connecting"]
  /\ timer' = [timer EXCEPT ![s] = "running"]
  /\ warmUp' = [warmUp EXCEPT ![s] = "check"]
  /\ UNCHANGED <<proc, at, seen, warmed, unsent>>

\* WarmUp returns, its deferred cancel runs, and so does Dial.
Return(s) ==
  /\ at' = [at EXCEPT ![s] = @ + 1]
  /\ warmUp' = [warmUp EXCEPT ![s] = "dial"]
  /\ timer' = [timer EXCEPT ![s] = "off"]
  /\ seen' = [seen EXCEPT ![s] = "closed"]
  /\ UNCHANGED <<proc, conn, warmed, unsent>>

CheckReady(s) ==
  /\ Dialling(s) /\ warmUp[s] = "check"
  /\ conn[Channel(s)] = "ready"
  /\ Return(s)

CheckNotReady(s) ==
  /\ Dialling(s) /\ warmUp[s] = "check"
  /\ conn[Channel(s)] # "ready"
  /\ warmUp' = [warmUp EXCEPT ![s] = "wait"]
  /\ seen' = [seen EXCEPT ![s] = conn[Channel(s)]]
  /\ UNCHANGED <<proc, at, timer, conn, warmed, unsent>>

\* A mutation: the state is not looked at again once it has changed.
MutStateChanges(s) ==
  /\ Dialling(s) /\ warmUp[s] = "wait"
  /\ conn[Channel(s)] # seen[s]
  /\ Return(s)

\* WaitForStateChange returns true, also when the context is done by then.
StateChanges(s) ==
  /\ Dialling(s) /\ warmUp[s] = "wait"
  /\ conn[Channel(s)] # seen[s]
  /\ warmUp' = [warmUp EXCEPT ![s] = "check"]
  /\ UNCHANGED <<proc, at, seen, timer, conn, warmed, unsent>>

\* A mutation: the warning is logged and the loop goes on.
MutTimesOut(s) ==
  /\ Dialling(s) /\ warmUp[s] = "wait"
  /\ timer[s] = "expired"
  /\ warmUp' = [warmUp EXCEPT ![s] = "check"]
  /\ UNCHANGED <<proc, at, seen, timer, conn, warmed, unsent>>

\* WaitForStateChange returns false: a warning, and start-up goes on without
\* the connection.
TimesOut(s) ==
  /\ Dialling(s) /\ warmUp[s] = "wait"
  /\ timer[s] = "expired"
  /\ Return(s)

TimerExpires(s) ==
  /\ timer[s] = "running"
  /\ timer' = [timer EXCEPT ![s] = "expired"]
  /\ warmed' = [warmed EXCEPT ![s] = @ \cup {at[s]}]
  /\ UNCHANGED <<proc, at, warmUp, seen, conn, unsent>>
-----------------------------------------------------------------------------
(* The gRPC channel.                                                       *)

Target(c) == Dials[c[1]][c[2]]

ConnMoves(c, to) ==
  /\ conn' = [conn EXCEPT ![c] = to]
  /\ UNCHANGED <<proc, at, warmUp, seen, timer, unsent>>

Handshake(c) ==
  /\ conn[c] \in {"connecting", "transientFailure"}
  /\ proc[Target(c)] = "serving"
  /\ ConnMoves(c, "ready")
  /\ warmed' = [warmed EXCEPT ![c[1]] = @ \cup {c[2]}]

\* Refused, or not answered in time.
Refused(c) ==
  conn[c] = "connecting" /\ ConnMoves(c, "transientFailure") /\ UNCHANGED warmed

BackoffEnds(c) ==
  conn[c] = "transientFailure" /\ ConnMoves(c, "connecting") /\ UNCHANGED warmed

\* The transport is lost.
Dropped(c) == conn[c] = "ready" /\ ConnMoves(c, "idle") /\ UNCHANGED warmed

\* A request handled by the process makes a call on an idle channel.
Call(c) ==
  /\ proc[c[1]] = "serving" /\ conn[c] = "idle"
  /\ ConnMoves(c, "connecting") /\ UNCHANGED warmed

(* The Kafka writer: it batches a message for BatchTimeout, then sends it. *)
WriterMoves(from) ==
  /\ DialOrchestration \in Services /\ proc[DialOrchestration] = "serving"
  /\ unsent = from /\ unsent' = ~from
  /\ UNCHANGED <<proc, at, warmUp, seen, timer, conn, warmed>>

Batch == WriterMoves(FALSE)

Flush == WriterMoves(TRUE)
-----------------------------------------------------------------------------
\* The steps of main up to Serve.
MainStep(s) ==
  \/ Connect(s) \/ CheckReady(s) \/ CheckNotReady(s) \/ StateChanges(s)
  \/ Listen(s) \/ StartFails(s)

Next ==
  \/ \E s \in Services : \/ Launch(s) \/ MainStep(s) \/ ServeFails(s)
                         \/ Interrupt(s) \/ TimesOut(s) \/ TimerExpires(s)
  \/ \E c \in Channels : \/ Handshake(c) \/ Refused(c) \/ BackoffEnds(c)
                         \/ Dropped(c) \/ Call(c)
  \/ Batch \/ Flush

\* main keeps running until it serves or exits, and the timer runs out; a process
\* that serves may do so for ever.  A wait whose context is done is
\* cut short unless the state changes at that very moment, each time it is
\* waited again; the backoff of the channel keeps that from going on.
Fairness ==
  \A s \in Services : /\ WF_vars(MainStep(s))
                      /\ WF_vars(TimerExpires(s))
                      /\ SF_vars(TimesOut(s))

Spec == Init /\ [][Next]_vars /\ Fairness
-----------------------------------------------------------------------------
\* A process takes traffic only after each of its connections was ready or had
\* its full five seconds ("before the service starts serving real traffic",
\* warmup.go), also when connections flap and services restart meanwhile.
WarmBeforeServing ==
  \A s \in Services : proc[s] = "serving" => DOMAIN Dials[s] \subseteq warmed[s]

Lifecycle == INSTANCE ServiceLifecycle WITH Processes <- Services, phase <- proc

\* Every process implements ServiceLifecycle: with dependencies down, restarting
\* or dropping connections, the dials in a row still end (WarmUp in main).
ImplementsLifecycle == Lifecycle!Spec
-----------------------------------------------------------------------------
(* What the repository says and the code does not do.                      *)

\* "Close flushes and closes the underlying writer. Call on service shutdown":
\* the orchestration service does not stop serving with a message unsent
\* (KafkaPublisher.Close, deferred in main).
ShutdownFlushes ==
  [][\A s \in Services : proc[s] = "serving" /\ proc'[s] = "down" =>
       ~(s = DialOrchestration /\ unsent)]_vars
=============================================================================
