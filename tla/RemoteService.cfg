SPECIFICATION FairSpec
CONSTANTS
  ask = ask
  back = back
  again = again
  NoCall = none
  Servers = {"gate", "game1", "game2"}
  Types = {"gate", "game", "chat"}
  TypeOf <- MCTypeOf
  Calls = {ask, back, again}
  Parent <- MCParent
  Home = "gate"
  Inputs <- MCInputs
  Share <- MCShare
  Pooled = {"game1"}
  BeforeHooks = 1
  AfterHooks <- MCAfterHooks
  QueueSize = 1
  Permits = 1
  MaxFailures = 1
INVARIANTS Truthful  RightServer
PROPERTIES EveryCallReturns EveryRequestServed
CHECK_DEADLOCK FALSE
