SPECIFICATION MCSpec
CONSTANTS
  Apps = {a1, a2}
  App = a1
  Enabled = {"prometheus", "statsd"}
  Namespace = "game.server"
  ConstLabels = {"env"}
  AdditionalLabels <- MCAdditional
  Custom <- MCCustom
  Contexts <- MCContexts
  Goroutines = {g, c1, c2}
  Callers = {c1, c2}
  limit = 2
  interval = 2
  forceDisable = TRUE
  MaxClock = 5
INVARIANTS  TagsReachReporters WindowBound
