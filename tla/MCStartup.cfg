SPECIFICATION Spec
CONSTANTS
  Dials <- MCDials
  Services = {"tenant-config-svc", "orchestration-service", "claims-gateway"}
INVARIANTS
  WarmBeforeServing
PROPERTIES
  ImplementsLifecycle
