SPECIFICATION FairSpec
CONSTANTS
  self = self
  game = game
  gate = gate
  ServerIDs = {self, game, gate}
  Self = self
  TypeOf <- MCTypeOf
  Blacklist <- MCBlacklist
  Watcher = watcher
  Ticker = ticker
  Renewers = {}
  WatchRetries = 1
  MaxChanges = 2
  MaxFailures = 1
INVARIANTS  ViewsAgree InSyncWhenDrained
PROPERTIES DropsAreJustified Converges EverySyncEnds
CHECK_DEADLOCK FALSE
