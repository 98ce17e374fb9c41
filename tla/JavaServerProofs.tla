-------------------------- MODULE JavaServerProofs --------------------------
(***************************************************************************)
(* For any number of threads and ids: a listening Java service stays up by *)
(* itself, and its log lines show the id of their own call.                *)
(***************************************************************************)
EXTENDS JavaServer, TLAPS

\* The server and the thread that waits for it start together, and only the end
\* of the server ends the thread; a thread's logging context is its call's.
IInv ==
  /\ server = "listening" => awaitThread = "blocked"
  /\ exit = "lastThread" => main = "returned" /\ awaitThread # "blocked"
  /\ mdc = call
  /\ call \in [Threads -> Ids \cup {NoId}]
  /\ LinesShowTheirCall

\* It holds before the first launch.
LEMMA InitHolds == Init => IInv
  BY DEF Init, IInv, LinesShowTheirCall

\* Every step of the process and of its handlers keeps it.
LEMMA StepKeeps == IInv /\ [Next]_vars => IInv'
  <1>. SUFFICES ASSUME IInv, [Next]_vars PROVE IInv'  OBVIOUS
  <1>. USE DEF IInv, LinesShowTheirCall
  <1>up. CASE Launch \/ StartUp
    BY <1>up DEF Launch, StartUp, Start, StartFails, MainReturns, Starting
  <1>down. CASE Signal \/ ShutDown \/ AwaitEnds \/ JvmKilled
    <2>1. CASE Signal \/ LastThreadEnds  BY <2>1 DEF Signal, LastThreadEnds
    <2>2. CASE Stop \/ StopNothing \/ AwaitEnds
      BY <2>2 DEF Stop, StopNothing, AwaitEnds, Closing
    <2>3. CASE JvmExits \/ JvmKilled  BY <2>3 DEF JvmExits, JvmKilled, Gone
    <2>. QED  BY <1>down, <2>1, <2>2, <2>3 DEF ShutDown
  <1>receive. ASSUME NEW t \in Threads, NEW id \in Ids, Receive(t, id) PROVE IInv'
    BY <1>receive DEF Receive, LogLine, process
  <1>complete. ASSUME NEW t \in Threads, Complete(t) PROVE IInv'
    BY <1>complete DEF Complete, LogLine, process
  <1>throw. ASSUME NEW t \in Threads, Throw(t) PROVE IInv'
    BY <1>throw DEF Throw, process
  <1>log. ASSUME NEW t \in Threads, GrpcLogs(t) PROVE IInv'
    BY <1>log DEF GrpcLogs, LogLine, process
  <1>same. CASE vars' = vars  BY <1>same DEF vars, process
  <1>. QED
    BY <1>up, <1>down, <1>receive, <1>complete, <1>throw, <1>log, <1>same DEF Next

\* A listening service never ends because its threads did, whatever calls come
\* and fail and whenever a signal arrives (GrpcServerLifecycle.start).
THEOREM StaysAlive == Spec => []ListeningKeepsAlive
  <1>1. IInv => ListeningKeepsAlive  BY DEF IInv, ListeningKeepsAlive
  <1>. QED  BY InitHolds, StepKeeps, <1>1, PTL DEF Spec

\* However many threads are reused for however many calls, no log line shows the
\* id of another call (the finally blocks of the handlers).
THEOREM NoStaleIds == Spec => []LinesShowTheirCall
  <1>1. IInv => LinesShowTheirCall  BY DEF IInv
  <1>. QED  BY InitHolds, StepKeeps, <1>1, PTL DEF Spec
-----------------------------------------------------------------------------
(* The life of the process, as ServiceLifecycle has it.                    *)

\* The phase ServiceLifecycle sees: the substitution of Lifecycle.
Phase == [p \in {"java"} |-> CASE jvm = "down" -> "down"
                               [] jvm = "up" /\ server = "none" -> "starting"
                               [] OTHER -> "serving"]

\* A process that is down has left nothing behind, and only a live one is closed.
LifeInv ==
  /\ jvm \in {"down", "up"}
  /\ jvm = "down" => server = "none" /\ exit = "no"
  /\ closed => exit # "no"

\* It holds before the first launch.
LEMMA LifeInit == Init => LifeInv
  BY DEF Init, LifeInv

\* Every step keeps it.
LEMMA LifeStep == LifeInv /\ [Next]_vars => LifeInv'
  <1>. SUFFICES ASSUME LifeInv, [Next]_vars PROVE LifeInv'  OBVIOUS
  <1>. USE DEF LifeInv
  <1>handlers. CASE UNCHANGED process  BY <1>handlers DEF process
  <1>up. CASE Launch \/ StartUp
    BY <1>up DEF Launch, StartUp, Start, StartFails, MainReturns, Starting
  <1>down. CASE Signal \/ ShutDown \/ AwaitEnds \/ JvmKilled
    BY <1>down DEF Signal, ShutDown, LastThreadEnds, Stop, StopNothing, JvmExits, AwaitEnds,
                   JvmKilled, Gone, Closing
  <1>. QED
    BY <1>handlers, <1>up, <1>down DEF Next, Receive, Complete, Throw, GrpcLogs, vars

\* Every step of the process is one of ServiceLifecycle or leaves its phase alone.
LEMMA PhaseStep == LifeInv /\ [Next]_vars => [Lifecycle!Next]_Phase
  <1>. SUFFICES ASSUME LifeInv, [Next]_vars PROVE Phase' = Phase \/ Lifecycle!Next
    OBVIOUS
  <1>next. ASSUME \/ Phase["java"] = "down" /\ Phase'["java"] = "starting"
                  \/ Phase["java"] = "starting" /\ Phase'["java"] \in {"serving", "down"}
                  \/ Phase["java"] = "serving" /\ Phase'["java"] = "down"
           PROVE  Lifecycle!Next
    BY <1>next, Zenon DEF Phase, Lifecycle!Next, Lifecycle!Launch, Lifecycle!Settle, Lifecycle!Exit
  <1>phase. /\ Phase["java"] = CASE jvm = "down" -> "down"
                                 [] jvm = "up" /\ server = "none" -> "starting"
                                 [] OTHER -> "serving"
            /\ Phase'["java"] = CASE jvm' = "down" -> "down"
                                  [] jvm' = "up" /\ server' = "none" -> "starting"
                                  [] OTHER -> "serving"
    BY DEF Phase
  <1>still. ASSUME UNCHANGED <<jvm, server>> PROVE Phase' = Phase
    BY <1>still DEF Phase
  <1>launch. CASE Launch
    BY <1>launch, <1>next, <1>phase DEF Launch, LifeInv
  <1>listen. CASE Start
    BY <1>listen, <1>next, <1>phase DEF Start, Starting
  <1>stop. CASE Stop
    <2>1. CASE server = "none"
      BY <1>stop, <1>next, <1>phase, <2>1 DEF Stop, Closing, LifeInv
    <2>2. CASE server # "none"
      <3>1. jvm = "up" /\ jvm' = "up" /\ server' # "none"
        BY <1>stop DEF Stop, Closing, LifeInv
      <3>. QED  BY <2>2, <3>1 DEF Phase
    <2>. QED  BY <2>1, <2>2
  <1>gone. CASE JvmExits \/ JvmKilled
    BY <1>gone, <1>next, <1>phase DEF JvmExits, JvmKilled, Gone, LifeInv
  <1>else. CASE UNCHANGED <<jvm, server>>
    BY <1>else, <1>still
  <1>. QED
    BY <1>launch, <1>listen, <1>stop, <1>gone, <1>else
    DEF Next, StartUp, StartFails, MainReturns, Signal, ShutDown, LastThreadEnds, StopNothing,
        AwaitEnds, Receive, Complete, Throw, GrpcLogs, vars, process

\* The safety part of ServiceLifecycle for the Java services: the JVM comes up before
\* the server listens, and a server that was up never goes back to starting, through
\* failed starts, signals, hanging calls and kills (GrpcServerLifecycle).
THEOREM JavaLifecycleSimulated == Spec => Lifecycle!Init /\ [][Lifecycle!Next]_Phase
  <1>1. Init => Lifecycle!Init
    <2>. SUFFICES ASSUME Init PROVE Lifecycle!Init  OBVIOUS
    <2>1. jvm = "down"  BY DEF Init
    <2>. QED  BY <2>1 DEF Lifecycle!Init
  <1>. QED  BY <1>1, LifeInit, LifeStep, PhaseStep, PTL DEF Spec
=============================================================================
