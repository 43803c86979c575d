\* A request and a notification that need the same unit of the semaphore, a message
\* that is none, and a shutdown at any time.
SPECIFICATION FairSpec
CONSTANTS
  ask = ask tell = tell put = put get = get lame = lame garbage = garbage
  player = player NoShare = NoShare NoReq = NoReq
  Reqs = {ask, tell, garbage}
  Notifies = {tell}
  Malformed = {garbage}
  Contextless = {}
  Share <- NobodyShares
  Threads = {1}
  Buffer = 1
  Semaphore = 1
  QueueSize = 1
  Stops = TRUE
INVARIANTS OneReply PermitsConserved
PROPERTIES  EveryRequestAnswered ShutdownCompletes
CHECK_DEADLOCK FALSE
