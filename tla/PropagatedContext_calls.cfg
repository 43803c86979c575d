\* Two calls with one context at any time, a third one in the handler of the first.
SPECIFICATION Spec
CONSTANTS
  login = login save = save audit = audit player = player
  None = None
  Calls = {login, save, audit}
  AppMaps = {player}
  MapOf <- MCMapOf
  ReqTimeout <- MCReqTimeout
  Skew <- MCSkew
  MaxTime = 5
INVARIANTS CompleteMetadata InheritsDeadline
PROPERTIES HandlerSeesItsRoute StartsWhileCallerWaits
CHECK_DEADLOCK FALSE
