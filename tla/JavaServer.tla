----------------------------- MODULE JavaServer -----------------------------
(***************************************************************************)
(* One of the three Java enrichment services: the Spring application with  *)
(* the gRPC server it starts and stops (GrpcServerLifecycle, a copy in     *)
(* each service), and the handler of its calls with the correlation id in  *)
(* the logging context of the thread (MDC in *GrpcService).                *)
(*                                                                         *)
(* A JVM ends when its shutdown hook is done; the hook runs on a signal or *)
(* when the last non-daemon thread ends.  Spring's hook closes the context *)
(* after start-up is over, and stops what is running.                      *)
(***************************************************************************)
CONSTANTS
  Threads,    \* the executor's threads, reused from call to call
  Ids,        \* correlation ids
  NoId        \* no call, or no id in the logging context

VARIABLES
  jvm,        \* the process is "down" or "up"
  main,       \* the main thread
  server,     \* the gRPC server
  running,    \* the field of GrpcServerLifecycle
  awaitThread,\* the thread that keeps the process alive
  exit,       \* why the JVM is ending, or "no"
  closed,     \* the shutdown hook is done
  call,       \* thread -> the id of the call it handles
  mdc,        \* thread -> correlation_id of its logging context
  line        \* the last log line: the call it is about and the id it shows

process == <<jvm, main, server, running, awaitThread, exit, closed>>
vars    == <<process, call, mdc, line>>

Init ==
  /\ jvm = "down" /\ main = "starting" /\ server = "none" /\ running = FALSE
  /\ awaitThread = "none" /\ exit = "no" /\ closed = FALSE
  /\ call = [t \in Threads |-> NoId]
  /\ mdc = [t \in Threads |-> NoId]
  /\ line = [about |-> NoId, shows |-> NoId]
-----------------------------------------------------------------------------
(* The life of the process.                                                *)

Launch ==
  /\ jvm = "down" /\ jvm' = "up"
  /\ UNCHANGED <<main, server, running, awaitThread, exit, closed, call, mdc, line>>

Starting == jvm = "up" /\ main = "starting" /\ server = "none"

\* A mutation: setDaemon(true), so the thread keeps nothing alive.
MutStart ==
  /\ Starting
  /\ server' = "listening" /\ running' = TRUE /\ awaitThread' = "daemon"
  /\ UNCHANGED <<jvm, main, exit, closed, call, mdc, line>>

Start ==
  /\ Starting
  /\ server' = "listening" /\ running' = TRUE /\ awaitThread' = "blocked"
  /\ UNCHANGED <<jvm, main, exit, closed, call, mdc, line>>

\* A mutation: the failure is only logged, and a thread waits for a stop.
MutStartFails ==
  /\ Starting
  /\ main' = "returned" /\ awaitThread' = "blocked"
  /\ UNCHANGED <<jvm, server, running, exit, closed, call, mdc, line>>

\* The port is taken: IllegalStateException leaves SpringApplication.run.
StartFails ==
  /\ Starting
  /\ main' = "returned"
  /\ UNCHANGED <<jvm, server, running, awaitThread, exit, closed, call, mdc, line>>

MainReturns ==
  /\ jvm = "up" /\ main = "starting" /\ server # "none"
  /\ main' = "returned"
  /\ UNCHANGED <<jvm, server, running, awaitThread, exit, closed, call, mdc, line>>

\* SIGTERM or Ctrl+C.
Signal ==
  /\ jvm = "up" /\ exit = "no"
  /\ exit' = "signal"
  /\ UNCHANGED <<jvm, main, server, running, awaitThread, closed, call, mdc, line>>

LastThreadEnds ==
  /\ jvm = "up" /\ exit = "no"
  /\ main = "returned" /\ awaitThread # "blocked"
  /\ exit' = "lastThread"
  /\ UNCHANGED <<jvm, main, server, running, awaitThread, closed, call, mdc, line>>

\* The hook gets to the context, whose start-up is over.
Closing == exit # "no" /\ ~closed /\ ~Starting

\* A mutation: stop waits for the server to terminate.
MutStop ==
  /\ Closing /\ running
  /\ \A t \in Threads : call[t] = NoId
  /\ server' = "shutdown" /\ running' = FALSE /\ closed' = TRUE
  /\ UNCHANGED <<jvm, main, awaitThread, exit, call, mdc, line>>

\* stop() of a running server: it takes no more calls, and is not waited for.
Stop ==
  /\ Closing /\ running
  /\ server' = "shutdown" /\ running' = FALSE /\ closed' = TRUE
  /\ UNCHANGED <<jvm, main, awaitThread, exit, call, mdc, line>>

\* isRunning is false: there is nothing to stop.
StopNothing ==
  /\ Closing /\ ~running
  /\ closed' = TRUE
  /\ UNCHANGED <<jvm, main, server, running, awaitThread, exit, call, mdc, line>>

\* awaitTermination returns once the calls under way are over.
AwaitEnds ==
  /\ awaitThread = "blocked" /\ server = "shutdown"
  /\ \A t \in Threads : call[t] = NoId
  /\ awaitThread' = "ended"
  /\ UNCHANGED <<jvm, main, server, running, exit, closed, call, mdc, line>>

\* The process is gone, and the calls under way with it.
Gone ==
  /\ jvm' = "down" /\ main' = "starting" /\ server' = "none" /\ running' = FALSE
  /\ awaitThread' = "none" /\ exit' = "no" /\ closed' = FALSE
  /\ call' = [t \in Threads |-> NoId]
  /\ mdc' = [t \in Threads |-> NoId]
  /\ UNCHANGED line

JvmExits == closed /\ Gone

JvmKilled == jvm = "up" /\ Gone
-----------------------------------------------------------------------------
(* The handler of a call.                                                  *)

LogLine(about, context) == line' = [about |-> about, shows |-> context]

\* MDC.put and the "request received" line.
Receive(t, id) ==
  /\ jvm = "up" /\ server = "listening" /\ call[t] = NoId
  /\ call' = [call EXCEPT ![t] = id]
  /\ mdc' = [mdc EXCEPT ![t] = id]
  /\ LogLine(id, id)
  /\ UNCHANGED process

\* The answer is sent, the "request completed" line, and the finally block.
Complete(t) ==
  /\ call[t] # NoId
  /\ LogLine(call[t], mdc[t])
  /\ call' = [call EXCEPT ![t] = NoId]
  /\ mdc' = [mdc EXCEPT ![t] = NoId]
  /\ UNCHANGED process

\* A mutation: MDC.remove is the last statement instead of the finally block.
MutThrow(t) ==
  /\ call[t] # NoId
  /\ call' = [call EXCEPT ![t] = NoId]
  /\ UNCHANGED <<process, mdc, line>>

\* The handler throws: only the finally block.
Throw(t) ==
  /\ call[t] # NoId
  /\ call' = [call EXCEPT ![t] = NoId]
  /\ mdc' = [mdc EXCEPT ![t] = NoId]
  /\ UNCHANGED <<process, line>>

\* gRPC logs on the thread outside a handler, an exception for one.
GrpcLogs(t) ==
  /\ jvm = "up" /\ call[t] = NoId
  /\ LogLine(NoId, mdc[t])
  /\ UNCHANGED <<process, call, mdc>>
-----------------------------------------------------------------------------
StartUp == Start \/ StartFails \/ MainReturns

ShutDown == LastThreadEnds \/ Stop \/ StopNothing \/ JvmExits

Next ==
  \/ Launch \/ StartUp \/ Signal \/ ShutDown \/ AwaitEnds \/ JvmKilled
  \/ \E t \in Threads : \/ \E id \in Ids : Receive(t, id)
                        \/ Complete(t) \/ Throw(t) \/ GrpcLogs(t)

\* The main thread and the shutdown hook run; calls may hang for ever.
Spec == Init /\ [][Next]_vars /\ WF_vars(StartUp) /\ WF_vars(ShutDown)
-----------------------------------------------------------------------------
\* A process that listens does not end by itself after main has returned, only
\* by a signal ("without a non-daemon thread alive, the JVM exits immediately
\* even though the gRPC server started successfully", GrpcServerLifecycle.start).
ListeningKeepsAlive == exit = "lastThread" => server # "listening"

\* No log line shows the id of another call, or of a call that is over: a thread
\* is reused with a clean logging context however its last call ended (the
\* finally blocks of the handlers).
LinesShowTheirCall == line.shows = line.about

\* A signal ends the process, also while a call hangs (GrpcServerLifecycle.stop
\* shuts the server down and does not wait for it).
SignalEndsProcess == exit = "signal" ~> jvm = "down"

Lifecycle == INSTANCE ServiceLifecycle WITH
  Processes <- {"java"},
  phase     <- [p \in {"java"} |-> CASE jvm = "down" -> "down"
                                     [] jvm = "up" /\ server = "none" -> "starting"
                                     [] OTHER -> "serving"]

\* The service implements ServiceLifecycle: it listens, or the process is gone
\* (GrpcServerLifecycle.start in SpringApplication.run).
ImplementsLifecycle == Lifecycle!Spec
=============================================================================
