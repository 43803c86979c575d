SPECIFICATION FairSpec
CONSTANTS
  self = self
  game = game
  gate = gate
  ServerIDs = {self}
  Self = self
  TypeOf <- MCTypeOf
  Blacklist <- MCBlacklist
  Watcher = watcher
  Ticker = ticker
  Renewers = {renewer}
  WatchRetries = 1
  MaxChanges = 1
  MaxFailures = 0
PROPERTIES Converges EverySyncEnds
CHECK_DEADLOCK FALSE
