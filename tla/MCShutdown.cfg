SPECIFICATION Spec
CONSTANTS
  Dials <- MCDials
  Services = {"tenant-config-svc", "orchestration-service"}
PROPERTIES
  ShutdownFlushes
