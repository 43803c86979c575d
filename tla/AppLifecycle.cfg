\* Every way to stop the application, at any moment of its life; a component registers
\* a module.
SPECIFICATION FairSpec
CONSTANTS
  UserModules = {"metrics", "store"}
  LateModules = {"late"}
  Callers = {"caller1", "caller2"}
  LeaseWatchers = {"lease"}
  NatsConns = {"server"}
  MaxSignals = 1
INVARIANTS DiscoveryLast Nested
PROPERTY ShutdownStops
CHECK_DEADLOCK FALSE
