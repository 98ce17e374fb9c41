SPECIFICATION Spec
CONSTANTS
  Threads = {t1, t2}
  Ids = {"a", "b"}
  NoId = ""
INVARIANTS
  ListeningKeepsAlive
  LinesShowTheirCall
PROPERTIES
  SignalEndsProcess
  ImplementsLifecycle
