\* Two messages of one player, one of them a notification, and a request without
\* context; one thread, and a shutdown at any time.
SPECIFICATION Spec
CONSTANTS
  ask = ask tell = tell put = put get = get lame = lame garbage = garbage
  player = player NoShare = NoShare NoReq = NoReq
  Reqs = {put, tell, lame}
  Notifies = {tell}
  Malformed = {}
  Contextless = {lame}
  Share <- PlayerShares
  Threads = {1}
  Buffer = 2
  Semaphore = 1
  QueueSize = 2
  Stops = TRUE
INVARIANT RejectedNeverRan
PROPERTIES SharedInOrder 
CHECK_DEADLOCK FALSE
